---------------------------- MODULE Spec2Model ----------------------------
(***************************************************************************)
(* Record reconciliation (scripts/merge_data.py, class DataMerger) and     *)
(* category scoring (scripts/apply_binary_priority_scoring.py).            *)
(*                                                                         *)
(* Representation.                                                         *)
(*   - A Python str the code looks into (a title, a DOI, an abstract, a    *)
(*     journal name, a URL) is a sequence of one-character strings; a str  *)
(*     it only compares whole (a source name, a keyword being merged, a    *)
(*     label) is a string.                                                 *)
(*   - A Python dict is a function whose DOMAIN is the set of its keys, so *)
(*     a missing key and a key holding an empty value stay different.      *)
(*   - Python None (an unmatched source, a refused merge) is the value     *)
(*     None below; it is falsy like the empty dict.                        *)
(*   - A float that the code only compares (a similarity, a composite      *)
(*     score) is an exact fraction or an exactly scaled integer.           *)
(* Every function of the code is an operator with the code's name; each    *)
(* specification draws the operator's arguments in its initial states and  *)
(* has one action that runs the call.                                      *)
(***************************************************************************)
EXTENDS Integers, Sequences, FiniteSets, TLC

VARIABLES
    pc,                 \* "call" before the modelled call ran, "return" after
    pubA,               \* _calculate_similarity: its argument pub1
    pubB,               \* _calculate_similarity: its argument pub2
    similarity,         \* _calculate_similarity: its return value
    target_paper,       \* _find_best_match: the paper to match
    source_data,        \* _find_best_match: one source's list of papers
    best_match,         \* _find_best_match: its return value
    base_paper,         \* _merge_multisource: the driving record
    scholar_match,      \* _merge_multisource: the Scholar match or None
    ads_match,          \* _merge_multisource: the ADS match or None
    openalex_match,     \* _merge_multisource: the OpenAlex match or None
    merged,             \* _merge_multisource: its return value
    publications,       \* _check_for_duplicates: the merged list
    deduplicated_list,  \* _check_for_duplicates: its return value
    publication,        \* scoring: the publication scored
    category_scores,    \* score_paper_binary_priority: raw score per label
    probabilities,      \* normalize_scores: probability per label
    researchArea,       \* assign_primary_category: the primary label
    heap,               \* merge_publications_multisource: the objects, by identity
    paper_list,         \* merge_publications_multisource: the base list (an object)
    scholar_list,       \* merge_publications_multisource: its argument scholar_data
    ads_list,           \* merge_publications_multisource: its argument ads_data
    openalex_list,      \* merge_publications_multisource: its argument openalex_data
    result,             \* merge_publications_multisource: its return value
    logged,             \* merge_publications_multisource: what it logged and printed
    raised,             \* merge_publications_multisource: the exception it ended with
    raw_title,          \* _normalize_title: its argument
    normalized_title,   \* _normalize_title: its return value
    legacy_scholar,     \* merge_publications: its argument scholar_data
    legacy_ads,         \* merge_publications: its argument ads_data
    legacy_result,      \* merge_publications: its return value
    legacy_origin,      \* merge_publications: for every returned record, the
                        \* positions of the ADS and Scholar records it holds
    legacy_raised       \* merge_publications: the exception it ended with

vars == <<pc, pubA, pubB, similarity, target_paper, source_data, best_match, base_paper, scholar_match,
          ads_match, openalex_match, merged, publications, deduplicated_list,
          publication, category_scores, probabilities, researchArea,
          heap, paper_list, scholar_list, ads_list, openalex_list, result, logged,
          raised,
          raw_title, normalized_title,
          legacy_scholar, legacy_ads, legacy_result, legacy_origin, legacy_raised>>

simVars == <<pubA, pubB, similarity>>
matchVars == <<target_paper, source_data, best_match>>
mergeVars == <<base_paper, scholar_match, ads_match, openalex_match, merged>>
dedupVars == <<publications, deduplicated_list>>
scoreVars == <<publication, category_scores, probabilities, researchArea>>
pipelineVars ==
    <<heap, paper_list, scholar_list, ads_list, openalex_list, result, logged, raised>>
normalizeVars == <<raw_title, normalized_title>>
legacyVars ==
    <<legacy_scholar, legacy_ads, legacy_result, legacy_origin, legacy_raised>>

---------------------------------------------------------------------------
(* Python values *)

\* Python None.
None == [isNone |-> TRUE]

\* The empty dict {} (and the empty str / list where a sequence is meant).
EmptyDict == <<>>

\* dict.get(key, default)
Get(d, key, default) == IF key \in DOMAIN d THEN d[key] ELSE default

\* `if d:` for an Optional[Dict]: None and the empty dict are falsy.
Truthy(d) == d # None /\ DOMAIN d # {}

\* dict.update(other): every key of other overwrites.
Update(d, other) ==
    [k \in DOMAIN d \cup DOMAIN other |->
        IF k \in DOMAIN other THEN other[k] ELSE d[k]]

\* d[key] = value
Put(d, key, value) == Update(d, key :> value)

Max(S) == CHOOSE x \in S : \A y \in S : y <= x
Min(S) == CHOOSE x \in S : \A y \in S : x <= y

RECURSIVE SumSeq(_)
SumSeq(s) == IF s = <<>> THEN 0 ELSE Head(s) + SumSeq(Tail(s))

\* The elements of a sequence.
Range(s) == {s[i] : i \in DOMAIN s}

\* All sequences over S of length 0..n.
SeqUpTo(S, n) == UNION {[1..k -> S] : k \in 0..n}

---------------------------------------------------------------------------
(* Characters and str methods *)

UpperChars ==
    {"A", "B", "C", "D", "E", "F", "G", "H", "I", "J", "K",
     "L", "M", "N", "O", "P", "Q", "R", "S", "T", "U", "V", "W", "X", "Y",
     "Z"}

LowerChars ==
    {"a", "b", "c", "d", "e", "f", "g", "h", "i", "j", "k",
     "l", "m", "n", "o", "p", "q", "r", "s", "t", "u", "v", "w", "x", "y",
     "z"}

DigitChars == {"0", "1", "2", "3", "4", "5", "6", "7", "8", "9"}

SpaceChars == {" "}

\* str.lower() on one character.
ToLower ==
    ("A" :> "a") @@ ("B" :> "b") @@ ("C" :> "c") @@ ("D" :> "d")
    @@ ("E" :> "e") @@ ("F" :> "f") @@ ("G" :> "g") @@ ("H" :> "h")
    @@ ("I" :> "i") @@ ("J" :> "j") @@ ("K" :> "k") @@ ("L" :> "l")
    @@ ("M" :> "m") @@ ("N" :> "n") @@ ("O" :> "o") @@ ("P" :> "p")
    @@ ("Q" :> "q") @@ ("R" :> "r") @@ ("S" :> "s") @@ ("T" :> "t")
    @@ ("U" :> "u") @@ ("V" :> "v") @@ ("W" :> "w") @@ ("X" :> "x")
    @@ ("Y" :> "y") @@ ("Z" :> "z")

LowerChar(c) == IF c \in DOMAIN ToLower THEN ToLower[c] ELSE c

\* str.lower()
Lower(s) == [i \in DOMAIN s |-> LowerChar(s[i])]

\* \w of the re module: letters, digits and the underscore.
IsWord(c) == c \in UpperChars \cup LowerChars \cup DigitChars \cup {"_"}

\* \s of the re module.
IsSpace(c) == c \in SpaceChars

\* s.startswith(p, at i): p occurs in s at position i (1-based).
OccursAt(s, p, i) ==
    /\ i >= 1
    /\ i + Len(p) - 1 <= Len(s)
    /\ \A k \in 1..Len(p) : s[i + k - 1] = p[k]

\* `p in s` for two str.
Contains(s, p) == \E i \in 1..(Len(s) + 1) : OccursAt(s, p, i)

\* str.strip() for the whitespace of SpaceChars: the string from its first
\* to its last character that is not whitespace.
NonSpaceAt(s) == {i \in DOMAIN s : ~IsSpace(s[i])}

LStrip(s) == IF NonSpaceAt(s) = {} THEN <<>> ELSE SubSeq(s, Min(NonSpaceAt(s)), Len(s))

RStrip(s) == IF NonSpaceAt(s) = {} THEN <<>> ELSE SubSeq(s, 1, Max(NonSpaceAt(s)))

Strip(s) == RStrip(LStrip(s))

---------------------------------------------------------------------------
(* DataMerger._normalize_title *)

\* html.unescape, one pass, for the character references the model's
\* alphabet can spell: &amp; &lt; &gt;, each also without its semicolon (the
\* HTML5 table holds both spellings, and a longer unknown name falls back to
\* its longest known prefix).
EntityNames == {<<"a", "m", "p">>, <<"l", "t">>, <<"g", "t">>}

EntityChar(name) ==
    CASE name = <<"a", "m", "p">> -> "&"
      [] name = <<"l", "t">> -> "<"
      [] name = <<"g", "t">> -> ">"

RECURSIVE UnescapeFrom(_, _)
UnescapeFrom(s, i) ==
    IF i > Len(s) THEN <<>>
    ELSE IF s[i] = "&" /\ \E n \in EntityNames : OccursAt(s, n, i + 1)
    THEN LET n == CHOOSE n \in EntityNames : OccursAt(s, n, i + 1)
             after == i + 1 + Len(n)
             semi == after <= Len(s) /\ s[after] = ";"
         IN  <<EntityChar(n)>> \o UnescapeFrom(s, IF semi THEN after + 1 ELSE after)
    ELSE <<s[i]>> \o UnescapeFrom(s, i + 1)

Unescape(s) == UnescapeFrom(s, 1)

\* Step 1: `while prev_title != title: title = html.unescape(title)`.
RECURSIVE UnescapeFix(_)
UnescapeFix(s) == LET u == Unescape(s) IN IF u = s THEN s ELSE UnescapeFix(u)

\* Step 2: re.sub(r"<[^>]+>", "", title). At a "<", the match runs to the
\* first ">" after it and needs at least one character in between.
RECURSIVE StripTagsFrom(_, _)
StripTagsFrom(s, i) ==
    IF i > Len(s) THEN <<>>
    ELSE LET closers == {j \in (i + 1)..Len(s) : s[j] = ">"}
         IN  IF s[i] = "<" /\ closers # {} /\ Min(closers) > i + 1
             THEN StripTagsFrom(s, Min(closers) + 1)
             ELSE <<s[i]>> \o StripTagsFrom(s, i + 1)

StripTags(s) == StripTagsFrom(s, 1)

\* Step 3a: re.sub(r"[^\w\s]", "", title.lower())
KeepWordSpace(c) == IsWord(c) \/ IsSpace(c)

RemovePunct(s) == SelectSeq(Lower(s), KeepWordSpace)

\* Step 3b: re.sub(r"\s+", " ", title): a run of whitespace becomes one space.
RECURSIVE CollapseSpaces(_)
CollapseSpaces(s) ==
    IF s = <<>> THEN <<>>
    ELSE IF IsSpace(Head(s))
    THEN IF Len(s) > 1 /\ IsSpace(s[2])
         THEN CollapseSpaces(Tail(s))
         ELSE <<" ">> \o CollapseSpaces(Tail(s))
    ELSE <<Head(s)>> \o CollapseSpaces(Tail(s))

\* The same steps with the ends stripped before the punctuation is removed
\* (a leading punctuation mark followed by a space then leaves the space).
_normalize_title_StripFirst(title) ==
    CollapseSpaces(RemovePunct(Strip(StripTags(UnescapeFix(title)))))

_normalize_title(title) ==
    Strip(CollapseSpaces(RemovePunct(StripTags(UnescapeFix(title)))))

---------------------------------------------------------------------------
(* difflib.SequenceMatcher(None, a, b).ratio(), as _calculate_similarity    *)
(* uses it (no junk; the automatic junk heuristic needs 200 characters).   *)

\* The length of the common run of a from i and b from j, inside the windows.
RECURSIVE RunLen(_, _, _, _, _, _)
RunLen(a, b, i, j, ahi, bhi) ==
    IF i > ahi \/ j > bhi \/ a[i] # b[j] THEN 0
    ELSE 1 + RunLen(a, b, i + 1, j + 1, ahi, bhi)

\* find_longest_match(alo, ahi, blo, bhi), windows inclusive and 1-based:
\* the longest block, of those the one starting earliest in a, of those the
\* one starting earliest in b. <<i, j, k>>, k = 0 when nothing matches.
FindLongestMatch(a, b, alo, ahi, blo, bhi) ==
    LET k(i, j) == RunLen(a, b, i, j, ahi, bhi)
        best == Max({0} \cup {k(i, j) : i \in alo..ahi, j \in blo..bhi})
    IN  IF best = 0 THEN <<alo, blo, 0>>
        ELSE LET i0 == Min({i \in alo..ahi : \E j \in blo..bhi : k(i, j) = best})
                 j0 == Min({j \in blo..bhi : k(i0, j) = best})
             IN  <<i0, j0, best>>

\* get_matching_blocks: the block, then the same to its left and its right.
\* The sum of the sizes of the blocks.
RECURSIVE MatchingSize(_, _, _, _, _, _)
MatchingSize(a, b, alo, ahi, blo, bhi) ==
    IF alo > ahi \/ blo > bhi THEN 0
    ELSE LET m == FindLongestMatch(a, b, alo, ahi, blo, bhi)
         IN  IF m[3] = 0 THEN 0
             ELSE m[3]
                  + MatchingSize(a, b, alo, m[1] - 1, blo, m[2] - 1)
                  + MatchingSize(a, b, m[1] + m[3], ahi, m[2] + m[3], bhi)

\* ratio() = 2.0 * matches / (len(a) + len(b)), 1.0 for two empty strings:
\* the fraction <<numerator, denominator>>.
Ratio(a, b) ==
    IF Len(a) + Len(b) = 0 THEN <<1, 1>>
    ELSE <<2 * MatchingSize(a, b, 1, Len(a), 1, Len(b)), Len(a) + Len(b)>>

\* Fractions with positive denominators.
FracLt(x, y) == x[1] * y[2] < y[1] * x[2]
FracLe(x, y) == x[1] * y[2] <= y[1] * x[2]
FracEq(x, y) == x[1] * y[2] = y[1] * x[2]

---------------------------------------------------------------------------
(* DataMerger._calculate_similarity and DataMerger._find_best_match *)

\* The value of `year1 == year2`: pub.get("year") is None for a missing key.
SameYear(pub1, pub2) ==
    /\ ("year" \in DOMAIN pub1) = ("year" \in DOMAIN pub2)
    /\ "year" \in DOMAIN pub1 => pub1["year"] = pub2["year"]

\* Mutant: the identifiers compared as written, without .lower().
IdentifierMatch_CaseSensitive(pub1, pub2) ==
    LET doi1 == Get(pub1, "doi", <<>>)
        doi2 == Get(pub2, "doi", <<>>)
        arxiv1 == Get(pub1, "arxivId", <<>>)
        arxiv2 == Get(pub2, "arxivId", <<>>)
    IN  \/ doi1 # <<>> /\ doi2 # <<>> /\ doi1 = doi2
        \/ arxiv1 # <<>> /\ arxiv2 # <<>> /\ arxiv1 = arxiv2

\* identifier_score > 0: both DOIs non-empty and equal in lower case, or
\* else both arXiv ids non-empty and equal in lower case.
IdentifierMatch(pub1, pub2) ==
    LET doi1 == Lower(Get(pub1, "doi", <<>>))
        doi2 == Lower(Get(pub2, "doi", <<>>))
        arxiv1 == Lower(Get(pub1, "arxivId", <<>>))
        arxiv2 == Lower(Get(pub2, "arxivId", <<>>))
    IN  \/ doi1 # <<>> /\ doi2 # <<>> /\ doi1 = doi2
        \/ arxiv1 # <<>> /\ arxiv2 # <<>> /\ arxiv1 = arxiv2

\* The title score of the titles as written, not normalized.
TitleScore_RawTitles(pub1, pub2) ==
    Ratio(Get(pub1, "title", <<>>), Get(pub2, "title", <<>>))

\* The title score, SequenceMatcher(None, title1, title2).ratio().
TitleScore(pub1, pub2) ==
    Ratio(_normalize_title(Get(pub1, "title", <<>>)),
          _normalize_title(Get(pub2, "title", <<>>)))

\* The similarity as a fraction: 1 on an identifier match, else
\* 0.7 * title_score + 0.3 * year_score.
_calculate_similarity(pub1, pub2) ==
    IF IdentifierMatch(pub1, pub2) THEN <<1, 1>>
    ELSE LET t == TitleScore(pub1, pub2)
             y == IF SameYear(pub1, pub2) THEN 1 ELSE 0
         IN  <<7 * t[1] + 3 * y * t[2], 10 * t[2]>>

\* The minimum threshold of _find_best_match, 0.67.
MatchThreshold == <<67, 100>>

\* Mutant: the test `score > best_score` dropped, so that the last acceptable
\* candidate wins.
RECURSIVE FindBestLoop_LastAccepted(_, _, _, _, _)
FindBestLoop_LastAccepted(target, data, i, best, best_score) ==
    IF i > Len(data) THEN best
    ELSE LET score == _calculate_similarity(target, data[i])
         IN  IF FracLe(MatchThreshold, score)
             THEN FindBestLoop_LastAccepted(target, data, i + 1, data[i], score)
             ELSE FindBestLoop_LastAccepted(target, data, i + 1, best, best_score)

\* The loop of _find_best_match from candidate i on.
RECURSIVE FindBestLoop(_, _, _, _, _)
FindBestLoop(target, data, i, best, best_score) ==
    IF i > Len(data) THEN best
    ELSE LET score == _calculate_similarity(target, data[i])
         IN  IF FracLt(best_score, score) /\ FracLe(MatchThreshold, score)
             THEN FindBestLoop(target, data, i + 1, data[i], score)
             ELSE FindBestLoop(target, data, i + 1, best, best_score)

_find_best_match(target, data) ==
    IF Strip(Get(target, "title", <<>>)) = <<>> THEN None
    ELSE FindBestLoop(target, data, 1, None, <<0, 1>>)

---------------------------------------------------------------------------
(* DataMerger._merge_multisource *)

\* list(set(...)): the elements of S in the iteration order of the set, which
\* Python leaves to the hashes of the strings. order lists every string that
\* can occur, in that iteration order.
ListOfSet(S, order) == SelectSeq(order, LAMBDA x : x \in S)

\* Mutant: the ADS record only fills the keys the base record lacks.
MergeAds_FillMissing(m, ads_data) ==
    IF Truthy(ads_data) THEN Update(ads_data, m) ELSE m

\* `if ads_data:` ... merged.update(ads_data)
MergeAds(m, ads_data) == IF Truthy(ads_data) THEN Update(m, ads_data) ELSE m

\* Mutant: the source's abstract taken whenever it has one, without the
\* comparison of the lengths.
TakeLongerAbstract_Always(m, src) ==
    IF "abstract" \in DOMAIN src THEN Put(m, "abstract", src["abstract"]) ELSE m

\* `if len(src.get("abstract", "")) > len(merged.get("abstract", "")):
\*      merged["abstract"] = src["abstract"]`
TakeLongerAbstract(m, src) ==
    IF Len(Get(src, "abstract", <<>>)) > Len(Get(m, "abstract", <<>>))
    THEN Put(m, "abstract", src["abstract"])
    ELSE m

\* `if key in src: merged[key] = src[key]`
CopyIfPresent(m, src, key) == IF key \in DOMAIN src THEN Put(m, key, src[key]) ELSE m

\* Mutant: a key holding an empty value is filled too.
FillIfMissing_OrEmpty(m, src, key) ==
    IF Get(m, key, <<>>) = <<>> /\ key \in DOMAIN src THEN Put(m, key, src[key]) ELSE m

\* `if key not in merged and key in src: merged[key] = src[key]`
FillIfMissing(m, src, key) ==
    IF key \notin DOMAIN m /\ key \in DOMAIN src THEN Put(m, key, src[key]) ELSE m

\* Mutant: the OpenAlex keywords replace those merged so far.
MergeOpenAlex_ReplaceKeywords(m, openalex_data, kwOrder) ==
    IF Truthy(openalex_data)
    THEN LET m1 == TakeLongerAbstract(m, openalex_data)
             m2 == CopyIfPresent(m1, openalex_data, "openalexUrl")
             openalex_keywords == Range(Get(openalex_data, "keywords", <<>>))
         IN  Put(m2, "keywords", ListOfSet(openalex_keywords, kwOrder))
    ELSE m

\* The OpenAlex block: longer abstract, openalexUrl, keywords united.
MergeOpenAlex(m, openalex_data, kwOrder) ==
    IF Truthy(openalex_data)
    THEN LET m1 == TakeLongerAbstract(m, openalex_data)
             m2 == CopyIfPresent(m1, openalex_data, "openalexUrl")
             existing_keywords == Range(Get(m2, "keywords", <<>>))
             openalex_keywords == Range(Get(openalex_data, "keywords", <<>>))
         IN  Put(m2, "keywords",
                 ListOfSet(existing_keywords \cup openalex_keywords, kwOrder))
    ELSE m

\* Mutant: the Scholar match also fills a missing journal.
MergeScholar_FillsJournal(m, scholar_data) ==
    IF Truthy(scholar_data)
    THEN LET m1 == TakeLongerAbstract(m, scholar_data)
             m2 == CopyIfPresent(m1, scholar_data, "scholarUrl")
             m3 == FillIfMissing(m2, scholar_data, "doi")
             m4 == FillIfMissing(m3, scholar_data, "arxivId")
         IN  FillIfMissing(m4, scholar_data, "journal")
    ELSE m

\* The Google Scholar block: longer abstract, scholarUrl, doi and arxivId
\* when merged has none.
MergeScholar(m, scholar_data) ==
    IF Truthy(scholar_data)
    THEN LET m1 == TakeLongerAbstract(m, scholar_data)
             m2 == CopyIfPresent(m1, scholar_data, "scholarUrl")
             m3 == FillIfMissing(m2, scholar_data, "doi")
         IN  FillIfMissing(m3, scholar_data, "arxivId")
    ELSE m

\* Mutant: the base record's source is left out.
SourcesFound_MatchesOnly(base, scholar_data, ads_data, openalex_data) ==
    (IF Truthy(ads_data) THEN <<"ads">> ELSE <<>>)
        \o (IF Truthy(openalex_data) THEN <<"openalex">> ELSE <<>>)
        \o (IF Truthy(scholar_data) THEN <<"google_scholar">> ELSE <<>>)

\* sources_found, in the order the code appends.
SourcesFound(base, scholar_data, ads_data, openalex_data) ==
    <<Get(base, "source", "base")>>
        \o (IF Truthy(ads_data) THEN <<"ads">> ELSE <<>>)
        \o (IF Truthy(openalex_data) THEN <<"openalex">> ELSE <<>>)
        \o (IF Truthy(scholar_data) THEN <<"google_scholar">> ELSE <<>>)

\* Mutant: a source that did not match is entered with 0 citations.
CitationsBySource_WithAbsent(scholar_data, ads_data, openalex_data) ==
    ("ads" :> (IF Truthy(ads_data) THEN Get(ads_data, "citations", 0) ELSE 0))
    @@ ("openalex" :>
            (IF Truthy(openalex_data) THEN Get(openalex_data, "citations", 0) ELSE 0))
    @@ ("google_scholar" :>
            (IF Truthy(scholar_data) THEN Get(scholar_data, "citations", 0) ELSE 0))

\* citations_by_source: source name -> src.get("citations", 0).
CitationsBySource(scholar_data, ads_data, openalex_data) ==
    (IF Truthy(ads_data)
        THEN "ads" :> Get(ads_data, "citations", 0) ELSE EmptyDict)
    @@ (IF Truthy(openalex_data)
        THEN "openalex" :> Get(openalex_data, "citations", 0) ELSE EmptyDict)
    @@ (IF Truthy(scholar_data)
        THEN "google_scholar" :> Get(scholar_data, "citations", 0) ELSE EmptyDict)

\* Mutant: the citations merged so far take part in the maximum.
SetCitations_WithMerged(m, citations_by_source) ==
    IF DOMAIN citations_by_source # {}
    THEN Put(Put(m, "citations",
                 Max(Range(citations_by_source) \cup {Get(m, "citations", 0)})),
             "citations_by_source", citations_by_source)
    ELSE Put(m, "citations", Get(m, "citations", 0))

\* `if citations_by_source:` the maximum and the mapping, else the citations
\* merged already has, or 0.
SetCitations(m, citations_by_source) ==
    IF DOMAIN citations_by_source # {}
    THEN Put(Put(m, "citations", Max(Range(citations_by_source))),
             "citations_by_source", citations_by_source)
    ELSE Put(m, "citations", Get(m, "citations", 0))

\* srcOrder and kwOrder are the set iteration orders of the two list(set())
\* calls.
_merge_multisource(base, scholar_data, ads_data, openalex_data, srcOrder, kwOrder) ==
    LET m1 == Update(EmptyDict, base)
        m2 == MergeAds(m1, ads_data)
        m3 == MergeOpenAlex(m2, openalex_data, kwOrder)
        m4 == MergeScholar(m3, scholar_data)
        m5 == SetCitations(m4,
                  CitationsBySource(scholar_data, ads_data, openalex_data))
        m6 == Put(m5, "sources",
                  ListOfSet(Range(SourcesFound(base, scholar_data, ads_data,
                                               openalex_data)), srcOrder))
    IN  IF Get(m6, "title", <<>>) = <<>> THEN None ELSE m6

---------------------------------------------------------------------------
(* DataMerger._get_publication_priority *)

Str_ascl == <<"a", "s", "c", "l">>

Str_ascl_journal ==
    <<"a", "s", "t", "r", "o", "p", "h", "y", "s", "i", "c", "s", " ", "s", "o", "u", "r", "c", "e", " ">>
        \o <<"c", "o", "d", "e", " ", "l", "i", "b", "r", "a", "r", "y">>

Str_ascl_net == <<"a", "s", "c", "l", ".", "n", "e", "t">>

Str_software == <<"s", "o", "f", "t", "w", "a", "r", "e">>

Str_code == <<"c", "o", "d", "e">>

Str_arxiv == <<"a", "r", "x", "i", "v">>

Str_eprint == <<"e", "p", "r", "i", "n", "t">>

Str_preprint == <<"p", "r", "e", "p", "r", "i", "n", "t">>

\* The journal_type list of the journal-article test.
JournalTypes ==
    { <<"a", "s", "t", "r", "o", "p", "h", "y", "s", "i", "c", "a">>
          \o <<"l", " ", "j", "o", "u", "r", "n", "a", "l">>,
      <<"m", "n", "r", "a", "s">>,
      <<"m", "o", "n", "t", "h", "l", "y", " ", "n", "o", "t", "i", "c", "e", "s">>,
      <<"a", "s", "t", "r", "o", "n", "o", "m", "y", " ", "a", "s">>
          \o <<"t", "r", "o", "p", "h", "y", "s", "i", "c", "s">>,
      <<"a", "s", "t", "r", "o", "n", "o", "m", "i", "c", "a", "l">>
          \o <<" ", "j", "o", "u", "r", "n", "a", "l">>,
      <<"j", "o", "u", "r", "n", "a", "l">>,
      <<"p", "r", "o", "c", "e", "e", "d", "i", "n", "g", "s">>,
      <<"l", "e", "t", "t", "e", "r", "s">> }

\* Mutant: the two lowest priorities exchanged, a software entry above a
\* publication of unknown type.
_get_publication_priority_SoftwareAboveUnknown(pub) ==
    LET bibcode == Lower(Get(pub, "bibcode", <<>>))
        journal == Lower(Get(pub, "journal", <<>>))
        scholar_url == Lower(Get(pub, "scholarUrl", <<>>))
        ads_url == Lower(Get(pub, "adsUrl", <<>>))
        is_ascl == \/ Contains(bibcode, Str_ascl)
                   \/ Contains(ads_url, Str_ascl)
                   \/ Contains(journal, Str_ascl_journal)
                   \/ Contains(scholar_url, Str_ascl_net)
        is_software == Contains(journal, Str_software) \/ Contains(journal, Str_code)
    IN  IF is_ascl \/ is_software THEN 2
        ELSE IF \/ Contains(journal, Str_arxiv)
                \/ Contains(bibcode, Str_eprint)
                \/ Contains(journal, Str_preprint) THEN 3
        ELSE IF \E journal_type \in JournalTypes : Contains(journal, journal_type) THEN 4
        ELSE 1

\* 1 for an ASCL or software entry, 3 for a preprint, 4 for a journal
\* article, 2 for anything else.
_get_publication_priority(pub) ==
    LET bibcode == Lower(Get(pub, "bibcode", <<>>))
        journal == Lower(Get(pub, "journal", <<>>))
        scholar_url == Lower(Get(pub, "scholarUrl", <<>>))
        ads_url == Lower(Get(pub, "adsUrl", <<>>))
        is_ascl == \/ Contains(bibcode, Str_ascl)
                   \/ Contains(ads_url, Str_ascl)
                   \/ Contains(journal, Str_ascl_journal)
                   \/ Contains(scholar_url, Str_ascl_net)
        is_software == Contains(journal, Str_software) \/ Contains(journal, Str_code)
    IN  IF is_ascl \/ is_software THEN 1
        ELSE IF \/ Contains(journal, Str_arxiv)
                \/ Contains(bibcode, Str_eprint)
                \/ Contains(journal, Str_preprint) THEN 3
        ELSE IF \E journal_type \in JournalTypes : Contains(journal, journal_type) THEN 4
        ELSE 2

---------------------------------------------------------------------------
(* DataMerger._check_for_duplicates *)

\* The composite score in units of 1/10000 (the code's float is
\* priority * 100 + len(sources) * 10 + citations / 10000.0; the scaling is
\* exact and keeps the order and the ties of the floats).
CompositeScore(pub) ==
    _get_publication_priority(pub) * 100 * 10000
        + Len(Get(pub, "sources", <<>>)) * 10 * 10000
        + Get(pub, "citations", 0)

\* Mutant: records grouped under the title as written.
GroupKey_RawTitle(pub) == Get(pub, "title", <<>>)

\* The normalized title a record is grouped under.
GroupKey(pub) == _normalize_title(Get(pub, "title", <<>>))

\* title_groups.items(): the index of the first record of every group, in
\* the order the groups were created.
GroupHeads(pubs) ==
    SelectSeq([i \in DOMAIN pubs |-> i],
              LAMBDA i : \A j \in 1..(i - 1) : GroupKey(pubs[j]) # GroupKey(pubs[i]))

\* The indices of the records grouped with record i, ascending.
GroupOf(pubs, i) ==
    SelectSeq([j \in DOMAIN pubs |-> j],
              LAMBDA j : GroupKey(pubs[j]) = GroupKey(pubs[i]))

\* The loop over one group of duplicates, from its k-th member on: the first
\* record of strictly greatest score so far.
RECURSIVE BestOfGroup(_, _, _, _, _)
BestOfGroup(pubs, group, k, best_pub, best_score) ==
    IF k > Len(group) THEN best_pub
    ELSE LET pub == pubs[group[k]]
             score == CompositeScore(pub)
         IN  IF score > best_score
             THEN BestOfGroup(pubs, group, k + 1, pub, score)
             ELSE BestOfGroup(pubs, group, k + 1, best_pub, best_score)

\* What one group adds when only its first record is removed.
KeptOfGroup_AllButFirst(pubs, group) ==
    IF Len(group) > 1
    THEN [k \in 1..(Len(group) - 1) |-> pubs[group[k + 1]]]
    ELSE <<pubs[group[1]]>>

\* Mutant: of the records of greatest score the last one is kept.
KeptOfGroup_LastOfBest(pubs, group) ==
    IF Len(group) > 1
    THEN LET top == Max({CompositeScore(pubs[group[k]]) : k \in DOMAIN group})
             last == Max({k \in DOMAIN group : CompositeScore(pubs[group[k]]) = top})
         IN  <<pubs[group[last]]>>
    ELSE <<pubs[group[1]]>>

\* What one group adds to deduplicated_list.
KeptOfGroup(pubs, group) ==
    IF Len(group) > 1
    THEN LET best_pub == BestOfGroup(pubs, group, 1, None, -1 * 10000)
         IN  IF Truthy(best_pub) THEN <<best_pub>> ELSE <<>>
    ELSE <<pubs[group[1]]>>

RECURSIVE DedupFrom(_, _, _)
DedupFrom(pubs, heads, k) ==
    IF k > Len(heads) THEN <<>>
    ELSE KeptOfGroup(pubs, GroupOf(pubs, heads[k])) \o DedupFrom(pubs, heads, k + 1)

_check_for_duplicates(pubs) ==
    IF pubs = <<>> THEN pubs ELSE DedupFrom(pubs, GroupHeads(pubs), 1)

---------------------------------------------------------------------------
(* DataMerger.merge_publications_multisource, over objects with identity:  *)
(* the heap maps an object to its value, a dict or a list; a dict holds    *)
(* its keywords as a reference to a list object, its other values inline.  *)

\* A reference to the object id.
Ref(id) == [ref |-> id]

\* `{}` and list(...): an object no reference leads to yet.
NewObject(h) == Max(DOMAIN h \cup {0}) + 1

\* obj = value, or the fields of obj written one by one.
Store(h, id, value) == [x \in DOMAIN h \cup {id} |-> IF x = id THEN value ELSE h[x]]

\* The strings of the keywords list a dict refers to; [] without the key.
KeywordsOf(h, dict) ==
    IF "keywords" \in DOMAIN dict THEN Range(h[dict["keywords"].ref]) ELSE {}

\* Mutant: merged is the base paper itself instead of a new dict.
MergedObject_Alias(h, base_id) == base_id

\* `merged = {}`: the object the merge writes to.
MergedObject(h, base_id) == NewObject(h)

\* The OpenAlex block: as MergeOpenAlex, the united keywords being a new
\* list object. <<heap, value of merged>>.
MergeOpenAlexOnHeap(h, m, openalex_data, kwOrder) ==
    IF Truthy(openalex_data)
    THEN LET m1 == TakeLongerAbstract(m, openalex_data)
             m2 == CopyIfPresent(m1, openalex_data, "openalexUrl")
             existing_keywords == KeywordsOf(h, m2)
             openalex_keywords == KeywordsOf(h, openalex_data)
             list == NewObject(h)
         IN  <<Store(h, list, ListOfSet(existing_keywords \cup openalex_keywords, kwOrder)),
               Put(m2, "keywords", Ref(list))>>
    ELSE <<h, m>>

\* _merge_multisource(base_paper, scholar_data, ads_data, openalex_data):
\* every write goes to the object merged. <<heap, merged or None>>.
MergeMultisourceOnHeap(h, base_id, scholar_data, ads_data, openalex_data, srcOrder, kwOrder) ==
    LET merged_id == MergedObject(h, base_id)
        base == h[base_id]
        h1 == Store(h, merged_id, Update(EmptyDict, base))
        m2 == MergeAds(h1[merged_id], ads_data)
        r3 == MergeOpenAlexOnHeap(h1, m2, openalex_data, kwOrder)
        m4 == MergeScholar(r3[2], scholar_data)
        m5 == SetCitations(m4,
                  CitationsBySource(scholar_data, ads_data, openalex_data))
        m6 == Put(m5, "sources",
                  ListOfSet(Range(SourcesFound(base, scholar_data, ads_data,
                                               openalex_data)), srcOrder))
    IN  <<Store(r3[1], merged_id, m6),
          IF Get(m6, "title", <<>>) = <<>> THEN None ELSE Ref(merged_id)>>

\* The records a list object holds, by value.
Records(h, list_id) == [j \in DOMAIN h[list_id] |-> h[h[list_id][j].ref]]

\* merged_paper = self._merge_multisource(paper, scholar_match, ads_match,
\* openalex_match), match holding the three matches in that order.
MergeMatched(h, paper_id, match, srcOrder, kwOrder) ==
    MergeMultisourceOnHeap(h, paper_id, match[1], match[2], match[3], srcOrder, kwOrder)

\* `if merged_paper: merged_publications.append(merged_paper)`, r being
\* <<heap, merged_paper>>.
AppendMerged(r, merged_publications) ==
    <<r[1], IF r[2] # None THEN Append(merged_publications, r[2]) ELSE merged_publications>>

\* One turn of the loop over paper_list: a paper without a title is
\* skipped, any other is matched against the three sources and merged.
\* state is <<heap, merged_publications>>, merged_publications holding
\* references; sources are the lists scholar_data, ads_data, openalex_data.
MergePaper(state, paper_id, sources, srcOrder, kwOrder) ==
    IF Strip(Get(state[1][paper_id], "title", <<>>)) = <<>>
    THEN state
    ELSE AppendMerged(
             MergeMatched(state[1], paper_id,
                          [s \in DOMAIN sources |->
                              _find_best_match(state[1][paper_id],
                                               Records(state[1], sources[s]))],
                          srcOrder, kwOrder),
             state[2])

\* The loop over paper_list from its i-th paper on.
RECURSIVE MergeLoop(_, _, _, _, _, _)
MergeLoop(state, papers, sources, i, srcOrder, kwOrder) ==
    IF i > Len(state[1][papers]) THEN state
    ELSE MergeLoop(MergePaper(state, state[1][papers][i].ref, sources, srcOrder, kwOrder),
                   papers, sources, i + 1, srcOrder, kwOrder)

\* sorted(..., key=lambda x: x.get("year", 0), reverse=True): a stable sort,
\* records of equal year keep their order.
RECURSIVE SortedByYear(_)
SortedByYear(pubs) ==
    IF pubs = <<>> THEN <<>>
    ELSE LET rest == SortedByYear(SubSeq(pubs, 1, Len(pubs) - 1))
             x == pubs[Len(pubs)]
             before == SelectSeq(rest, LAMBDA y : Get(y, "year", 0) >= Get(x, "year", 0))
             after == SelectSeq(rest, LAMBDA y : Get(y, "year", 0) < Get(x, "year", 0))
         IN  before \o <<x>> \o after

\* The merged records by value, state being <<heap, merged_publications>>.
MergedRecordsOf(state) == [k \in DOMAIN state[2] |-> state[1][state[2][k].ref]]

\* A year that is null: pub.get("year") gives None. It is kept as an integer
\* that is no year, so that == and != on years are Python's on None; an
\* ordering comparison with it raises.
NoneYear == -1

\* What a call ended with when it raised nothing.
NoException == "no exception"

\* The sort compares every key with another one as soon as there are two,
\* and `<` between None and an int, or None and None, raises TypeError.
SortRaises(pubs) ==
    Len(pubs) >= 2 /\ \E i \in DOMAIN pubs : Get(pubs[i], "year", 0) = NoneYear

\* return sorted(deduplicated_publications, ...): the list returned and the
\* exception raised.
SortOutcome(deduplicated_publications) ==
    IF SortRaises(deduplicated_publications)
    THEN [result |-> <<>>, raised |-> "TypeError"]
    ELSE [result |-> SortedByYear(deduplicated_publications), raised |-> NoException]

\* Duplicate resolution and the sort, which read the merged records and
\* write to no object: the result is given by value.
\* [heap |-> the objects after the call, result |-> the records returned,
\*  raised |-> the exception the call ended with].
Deduplicate(state) ==
    [heap |-> state[1]] @@ SortOutcome(_check_for_duplicates(MergedRecordsOf(state)))

\* logger.info("Merging data from ... Scholar, ... ADS, and ... OpenAlex
\* papers"): the sizes of the three source lists.
LogSources(h, scholar, ads, openalex) ==
    [about |-> "Merging data from",
     numbers |-> <<Len(h[scholar]), Len(h[ads]), Len(h[openalex])>>]

\* The summary _check_for_duplicates prints when it found duplicates: the
\* number of groups, of records removed, and the sizes before and after.
LogDuplicates(before, after) ==
    LET key == [i \in DOMAIN before |-> GroupKey(before[i])]
        in_groups == {j \in DOMAIN before : \E k \in DOMAIN before : k # j /\ key[k] = key[j]}
        groups == {key[j] : j \in in_groups}
    IN  IF groups = {} THEN <<>>
        ELSE << [about |-> "Duplicate Summary",
                 numbers |-> <<Cardinality(groups),
                               Cardinality(in_groups) - Cardinality(groups),
                               Len(before), Len(after)>>] >>

\* logger.info("Merged into ... publications with multi-source data")
LogMerged(deduplicated_publications) ==
    [about |-> "Merged into", numbers |-> <<Len(deduplicated_publications)>>]

\* What is logged and printed from duplicate resolution on: both before the
\* sort.
LogAfterLoop(before, after) == LogDuplicates(before, after) \o <<LogMerged(after)>>

\* Everything the call logs and prints, in order, r being what Deduplicate
\* gave for the state the loop ended in.
WithLog(r, first, merged_publications) ==
    r @@ [logged |-> <<first>> \o LogAfterLoop(merged_publications,
                                               _check_for_duplicates(merged_publications))]

LoggedCall(state, first) == WithLog(Deduplicate(state), first, MergedRecordsOf(state))

merge_publications_multisource(h, papers, scholar, ads, openalex, srcOrder, kwOrder) ==
    LoggedCall(MergeLoop(<<h, <<>> >>, papers, <<scholar, ads, openalex>>, 1,
                         srcOrder, kwOrder),
               LogSources(h, scholar, ads, openalex))

---------------------------------------------------------------------------
(* DataMerger.merge_publications (the legacy merge of two sources) and     *)
(* DataMerger._merge_publications                                          *)

\* The ADS record as the base, the greater citations, the Scholar record's
\* scholarUrl, its doi and arxivId when missing, the longer abstract.
_merge_publications(ads_pub, scholar_pub) ==
    LET m1 == Update(EmptyDict, ads_pub)
        m2 == Put(m1, "citations",
                  Max({Get(ads_pub, "citations", 0), Get(scholar_pub, "citations", 0)}))
        m3 == CopyIfPresent(m2, scholar_pub, "scholarUrl")
        m4 == FillIfMissing(m3, scholar_pub, "doi")
        m5 == FillIfMissing(m4, scholar_pub, "arxivId")
        m6 == TakeLongerAbstract(m5, scholar_pub)
    IN  Put(m6, "sources", <<"ads", "google_scholar">>)

\* `score > 0.8`
LegacyThreshold == <<8, 10>>

\* Mutant: a Scholar record already merged can be matched again.
RECURSIVE BestScholarIdx_IgnoreUsed(_, _, _, _, _, _)
BestScholarIdx_IgnoreUsed(ads_pub, scholar, scholar_used, i, best_scholar_idx, best_score) ==
    IF i > Len(scholar) THEN best_scholar_idx
    ELSE LET score == _calculate_similarity(ads_pub, scholar[i])
         IN  IF FracLt(best_score, score) /\ FracLt(LegacyThreshold, score)
             THEN BestScholarIdx_IgnoreUsed(ads_pub, scholar, scholar_used, i + 1, i, score)
             ELSE BestScholarIdx_IgnoreUsed(ads_pub, scholar, scholar_used, i + 1,
                                            best_scholar_idx, best_score)

\* The inner loop from Scholar record i on: the position of the first unused
\* Scholar record of greatest score above the threshold, 0 when there is
\* none (positions count from 1; the code's -1 is 0 here).
RECURSIVE BestScholarIdx(_, _, _, _, _, _)
BestScholarIdx(ads_pub, scholar, scholar_used, i, best_scholar_idx, best_score) ==
    IF i > Len(scholar) THEN best_scholar_idx
    ELSE IF i \in scholar_used
         THEN BestScholarIdx(ads_pub, scholar, scholar_used, i + 1,
                             best_scholar_idx, best_score)
    ELSE LET score == _calculate_similarity(ads_pub, scholar[i])
         IN  IF FracLt(best_score, score) /\ FracLt(LegacyThreshold, score)
             THEN BestScholarIdx(ads_pub, scholar, scholar_used, i + 1, i, score)
             ELSE BestScholarIdx(ads_pub, scholar, scholar_used, i + 1,
                                 best_scholar_idx, best_score)

\* A record of merged_publications with the positions of the ADS and the
\* Scholar record it holds (0: none).
Entry(pub, ads_idx, scholar_idx) == [pub |-> pub, ads |-> ads_idx, scholar |-> scholar_idx]

\* merged_publications.append(merged_pub); scholar_used.add(...); the
\* f-string of logger.debug reads merged_pub['title'], which raises KeyError
\* when the ADS record had no title key.
MergedTurn(state, merged_pub, i, best_scholar_idx) ==
    IF "title" \notin DOMAIN merged_pub
    THEN [state EXCEPT !.raised = "KeyError"]
    ELSE [entries |-> Append(state.entries, Entry(merged_pub, i, best_scholar_idx)),
          scholar_used |-> state.scholar_used \cup {best_scholar_idx},
          raised |-> NoException]

\* One turn of the first pass, for the ADS record at position i, after the
\* inner loop found best_scholar_idx. `if best_match:` is false for no match
\* and for a matched record that is an empty dict.
AfterTurn(state, ads_pub, scholar, i, best_scholar_idx) ==
    IF state.raised # NoException THEN state
    ELSE IF best_scholar_idx # 0 /\ Truthy(scholar[best_scholar_idx])
    THEN MergedTurn(state, _merge_publications(ads_pub, scholar[best_scholar_idx]),
                    i, best_scholar_idx)
    ELSE [state EXCEPT !.entries = Append(@, Entry(ads_pub, i, 0))]

\* The first pass from ADS record i on; state holds merged_publications,
\* scholar_used and the exception raised so far.
RECURSIVE FirstPass(_, _, _, _)
FirstPass(ads, scholar, i, state) ==
    IF i > Len(ads) THEN state
    ELSE FirstPass(ads, scholar, i + 1,
                   AfterTurn(state, ads[i], scholar, i,
                             BestScholarIdx(ads[i], scholar, state.scholar_used,
                                            1, 0, <<0, 1>>)))

\* The second pass: the Scholar records not used, in their order.
SecondPass(scholar, scholar_used) ==
    LET left == SelectSeq([i \in DOMAIN scholar |-> i], LAMBDA i : i \notin scholar_used)
    IN  [k \in DOMAIN left |-> Entry(scholar[left[k]], 0, left[k])]

\* sorted(merged_publications, key=lambda x: x.get("year", 0), reverse=True)
\* on the entries: a stable sort by the year of the record.
RECURSIVE SortedEntries(_)
SortedEntries(entries) ==
    IF entries = <<>> THEN <<>>
    ELSE LET rest == SortedEntries(SubSeq(entries, 1, Len(entries) - 1))
             x == entries[Len(entries)]
             before == SelectSeq(rest,
                           LAMBDA y : Get(y.pub, "year", 0) >= Get(x.pub, "year", 0))
             after == SelectSeq(rest,
                          LAMBDA y : Get(y.pub, "year", 0) < Get(x.pub, "year", 0))
         IN  before \o <<x>> \o after

PubsOf(entries) == [k \in DOMAIN entries |-> entries[k].pub]

OriginOf(entries) == [k \in DOMAIN entries |-> <<entries[k].ads, entries[k].scholar>>]

\* The records returned and, for each, where it came from.
WithOrigin(entries) ==
    [result |-> PubsOf(entries), origin |-> OriginOf(entries), raised |-> NoException]

\* return sorted(merged_publications, ...): the sort raises TypeError when
\* it compares a null year.
LegacySorted(entries) ==
    IF SortRaises(PubsOf(entries))
    THEN [result |-> <<>>, origin |-> <<>>, raised |-> "TypeError"]
    ELSE WithOrigin(SortedEntries(entries))

\* What the call ends with, first being the outcome of the first pass.
LegacyOutcome(first, scholar) ==
    IF first.raised # NoException
    THEN [result |-> <<>>, origin |-> <<>>, raised |-> first.raised]
    ELSE LegacySorted(first.entries \o SecondPass(scholar, first.scholar_used))

merge_publications(scholar, ads) ==
    LegacyOutcome(FirstPass(ads, scholar, 1,
                            [entries |-> <<>>, scholar_used |-> {},
                             raised |-> NoException]),
                  scholar)

---------------------------------------------------------------------------
(* Arguments of _find_best_match *)

\* The longest candidate list drawn.
MaxCandidates == 2

Title_AbC == <<"A", "b", ":", " ", "c">>
Title_abc == <<"a", "b", " ", "c">>
Title_abd == <<"a", "b", " ", "d">>
Title_de == <<"d", "e">>
Title_blank == <<" ">>
Title_punct == <<"!">>

Doi_d1 == <<"d", "1">>
Doi_D1 == <<"D", "1">>
Doi_d2 == <<"d", "2">>
Arxiv_x1 == <<"x", "1">>
Arxiv_X1 == <<"X", "1">>

TargetPapers ==
    { ("title" :> Title_AbC) @@ ("year" :> 2020) @@ ("doi" :> Doi_d1),
      ("title" :> Title_AbC) @@ ("year" :> 2020),
      ("title" :> Title_abd) @@ ("year" :> 2021) @@ ("arxivId" :> Arxiv_x1),
      ("title" :> Title_blank) @@ ("year" :> 2020) @@ ("doi" :> Doi_d1),
      ("year" :> 2020) @@ ("doi" :> Doi_d1),
      ("title" :> Title_punct),
      ("title" :> Title_de) @@ ("year" :> 2020) @@ ("doi" :> Doi_d2)
          @@ ("arxivId" :> Arxiv_x1) }

CandidatePapers ==
    { ("title" :> Title_abc) @@ ("year" :> 2020) @@ ("doi" :> Doi_d1),
      ("title" :> Title_AbC) @@ ("year" :> 2021),
      ("title" :> Title_abc) @@ ("year" :> 2021),
      ("title" :> Title_abd) @@ ("year" :> 2020),
      ("title" :> Title_abd) @@ ("year" :> 2021),
      ("title" :> Title_de) @@ ("year" :> 2021) @@ ("doi" :> Doi_D1),
      ("title" :> Title_de) @@ ("year" :> 2021) @@ ("arxivId" :> Arxiv_x1),
      ("title" :> <<>>),
      ("title" :> Title_de) @@ ("year" :> 2020) @@ ("doi" :> Doi_D1)
          @@ ("arxivId" :> Arxiv_X1),
      ("title" :> Title_de) @@ ("year" :> 2019) @@ ("doi" :> <<>>)
          @@ ("arxivId" :> <<>>) }

\* Two titles whose longest common block is found at different places when
\* the arguments are exchanged.
Title_aba == <<"a", "b", "a">>
Title_bca == <<"b", "c", "a">>

\* The arguments of _calculate_similarity.
SimilarityPapers ==
    TargetPapers \cup CandidatePapers
        \cup { ("title" :> Title_aba) @@ ("year" :> 2020),
               ("title" :> Title_bca) @@ ("year" :> 2020) }

\* What a variable holds in a specification that does not use it.
Unused == <<>>

SimIdle == pubA = Unused /\ pubB = Unused /\ similarity = Unused

MatchIdle == target_paper = Unused /\ source_data = Unused /\ best_match = Unused

MergeIdle ==
    /\ base_paper = Unused /\ scholar_match = Unused /\ ads_match = Unused
    /\ openalex_match = Unused /\ merged = Unused

DedupIdle == publications = Unused /\ deduplicated_list = Unused

ScoreIdle ==
    /\ publication = Unused /\ category_scores = Unused
    /\ probabilities = Unused /\ researchArea = Unused

PipelineIdle ==
    /\ heap = Unused /\ paper_list = Unused /\ scholar_list = Unused
    /\ ads_list = Unused /\ openalex_list = Unused /\ result = Unused
    /\ logged = Unused /\ raised = Unused

NormalizeIdle == raw_title = Unused /\ normalized_title = Unused

LegacyIdle ==
    /\ legacy_scholar = Unused /\ legacy_ads = Unused /\ legacy_result = Unused
    /\ legacy_origin = Unused /\ legacy_raised = Unused

---------------------------------------------------------------------------
(* Specification: one call of _normalize_title *)

\* Pieces a title is spelled from: character references encoded twice and
\* once, bare angle brackets, a capital letter, an underscore, a space and a
\* punctuation mark.
Piece_amp_lt == <<"&", "a", "m", "p", ";", "l", "t", ";">>
Piece_amp_gt == <<"&", "a", "m", "p", ";", "g", "t", ";">>
Piece_lt == <<"&", "l", "t", ";">>
Piece_gt == <<"&", "g", "t", ";">>

TitlePieces ==
    { Piece_amp_lt, Piece_amp_gt, Piece_lt, Piece_gt,
      <<"<">>, <<">">>, <<"A">>, <<"_">>, <<" ">>, <<"!">> }

MaxPieces == 4

RECURSIVE Concat(_)
Concat(pieces) == IF pieces = <<>> THEN <<>> ELSE Head(pieces) \o Concat(Tail(pieces))

Titles == {Concat(pieces) : pieces \in SeqUpTo(TitlePieces, MaxPieces)}

InitNormalize ==
    /\ pc = "call"
    /\ raw_title \in Titles
    /\ normalized_title = Unused
    /\ SimIdle /\ MatchIdle /\ MergeIdle /\ DedupIdle /\ ScoreIdle /\ PipelineIdle
    /\ LegacyIdle

\* normalized_title = self._normalize_title(raw_title)
NormalizeTitle ==
    /\ pc = "call"
    /\ normalized_title' = _normalize_title(raw_title)
    /\ pc' = "return"
    /\ UNCHANGED <<raw_title, simVars, matchVars, mergeVars, dedupVars, scoreVars,
                   pipelineVars, legacyVars>>

NextNormalize == NormalizeTitle

SpecNormalize == InitNormalize /\ [][NextNormalize]_vars

---------------------------------------------------------------------------
(* Specification: one call of _calculate_similarity *)

InitSimilarity ==
    /\ pc = "call"
    /\ pubA \in SimilarityPapers
    /\ pubB \in SimilarityPapers
    /\ similarity = Unused
    /\ MatchIdle /\ MergeIdle /\ DedupIdle /\ ScoreIdle /\ PipelineIdle /\ NormalizeIdle
    /\ LegacyIdle

\* similarity = self._calculate_similarity(pubA, pubB)
CalculateSimilarity ==
    /\ pc = "call"
    /\ similarity' = _calculate_similarity(pubA, pubB)
    /\ pc' = "return"
    /\ UNCHANGED <<pubA, pubB, matchVars, mergeVars, dedupVars, scoreVars,
                   pipelineVars, normalizeVars,
                   legacyVars>>

NextSimilarity == CalculateSimilarity

SpecSimilarity == InitSimilarity /\ [][NextSimilarity]_vars

---------------------------------------------------------------------------
(* Specification: one call of _find_best_match *)

InitMatch ==
    /\ pc = "call"
    /\ target_paper \in TargetPapers
    /\ source_data \in SeqUpTo(CandidatePapers, MaxCandidates)
    /\ best_match = Unused
    /\ SimIdle /\ MergeIdle /\ DedupIdle /\ ScoreIdle /\ PipelineIdle /\ NormalizeIdle
    /\ LegacyIdle

\* best_match = self._find_best_match(target_paper, source_data)
FindBestMatch ==
    /\ pc = "call"
    /\ best_match' = _find_best_match(target_paper, source_data)
    /\ pc' = "return"
    /\ UNCHANGED <<target_paper, source_data, simVars, mergeVars, dedupVars,
                   scoreVars, pipelineVars, normalizeVars,
                   legacyVars>>

NextMatch == FindBestMatch

SpecMatch == InitMatch /\ [][NextMatch]_vars

---------------------------------------------------------------------------
(* Specification: one call of _merge_multisource *)

Abs_a == <<"a">>
Abs_ab == <<"a", "b">>
Abs_abc == <<"a", "b", "c">>
Abs_abcd == <<"a", "b", "c", "d">>
Abs_abcde == <<"a", "b", "c", "d", "e">>

Url_ads == <<"a", "d", "s", "/", "1">>
Url_openalex == <<"o", "a", "/", "1">>
Url_scholar == <<"g", "s", "/", "1">>

Journal_ApJ == <<"A", "p", "J">>
Journal_MNRAS == <<"M", "N", "R", "A", "S">>
Journal_arXiv == <<"a", "r", "X", "i", "v">>

BasePapers ==
    { ("title" :> Title_AbC) @@ ("abstract" :> Abs_abc) @@ ("keywords" :> <<"k1">>)
          @@ ("citations" :> 5) @@ ("year" :> 2020) @@ ("journal" :> Journal_ApJ),
      ("title" :> Title_AbC) @@ ("source" :> "ads") @@ ("doi" :> Doi_d1),
      ("title" :> Title_AbC) @@ ("abstract" :> <<>>) @@ ("keywords" :> <<>>)
          @@ ("citations" :> 0) @@ ("journal" :> <<>>) @@ ("doi" :> <<>>),
      ("title" :> <<>>) @@ ("abstract" :> Abs_ab) @@ ("citations" :> 1),
      ("abstract" :> Abs_ab) @@ ("year" :> 2020) }

AdsPapers ==
    { ("title" :> Title_abd) @@ ("abstract" :> Abs_a) @@ ("keywords" :> <<"k2">>)
          @@ ("citations" :> 7) @@ ("year" :> 2021) @@ ("journal" :> Journal_MNRAS)
          @@ ("doi" :> Doi_d2) @@ ("source" :> "ads") @@ ("adsUrl" :> Url_ads),
      ("title" :> Title_AbC) @@ ("abstract" :> <<>>) @@ ("keywords" :> <<>>)
          @@ ("citations" :> 0) @@ ("source" :> "ads"),
      ("doi" :> Doi_D1) @@ ("citations" :> 2),
      ("title" :> <<>>) @@ ("doi" :> Doi_d1),
      EmptyDict }

OpenAlexPapers ==
    { ("title" :> Title_de) @@ ("abstract" :> Abs_ab) @@ ("keywords" :> <<"k1", "k3">>)
          @@ ("citations" :> 9) @@ ("journal" :> Journal_MNRAS) @@ ("doi" :> Doi_d2)
          @@ ("source" :> "openalex") @@ ("openalexUrl" :> Url_openalex),
      ("title" :> Title_AbC) @@ ("year" :> 2021),
      ("title" :> Title_abc) @@ ("abstract" :> Abs_abcd) @@ ("keywords" :> <<"k2">>)
          @@ ("citations" :> 0) }

ScholarPapers ==
    { ("title" :> Title_abc) @@ ("abstract" :> Abs_abcde) @@ ("keywords" :> <<"k3">>)
          @@ ("citations" :> 3) @@ ("journal" :> Journal_arXiv) @@ ("doi" :> Doi_d1)
          @@ ("arxivId" :> Arxiv_x1) @@ ("source" :> "google_scholar")
          @@ ("scholarUrl" :> Url_scholar),
      ("title" :> Title_AbC) @@ ("abstract" :> Abs_a) @@ ("citations" :> 12)
          @@ ("journal" :> Journal_ApJ) }

\* The strings that can be in a merged record's sources and keywords.
SourceNames == {"base", "ads", "openalex", "google_scholar"}
Keywords == {"k1", "k2", "k3"}

\* The orders in which a set of strings can be iterated.
Orderings(S) == {f \in [1..Cardinality(S) -> S] : Range(f) = S}

InitMerge ==
    /\ pc = "call"
    /\ base_paper \in BasePapers
    /\ scholar_match \in ScholarPapers \cup {None}
    /\ ads_match \in AdsPapers \cup {None}
    /\ openalex_match \in OpenAlexPapers \cup {None}
    /\ merged = Unused
    /\ SimIdle /\ MatchIdle /\ DedupIdle /\ ScoreIdle /\ PipelineIdle /\ NormalizeIdle
    /\ LegacyIdle

\* merged = self._merge_multisource(base_paper, scholar_match, ads_match,
\*                                  openalex_match)
MergeMultisource ==
    /\ pc = "call"
    /\ \E srcOrder \in Orderings(SourceNames), kwOrder \in Orderings(Keywords) :
          merged' = _merge_multisource(base_paper, scholar_match, ads_match,
                                       openalex_match, srcOrder, kwOrder)
    /\ pc' = "return"
    /\ UNCHANGED <<base_paper, scholar_match, ads_match, openalex_match,
                   simVars, matchVars, dedupVars, scoreVars,
                   pipelineVars, normalizeVars,
                   legacyVars>>

NextMerge == MergeMultisource

SpecMerge == InitMerge /\ [][NextMerge]_vars

---------------------------------------------------------------------------
(* Specification: one call of _check_for_duplicates *)

\* The longest list of merged records drawn.
MaxPubs == 3

Title_ABC == <<"A", "B", " ", "C">>
Title_De == <<"D", "e", "!">>

Journal_Astrophysical ==
    <<"T", "h", "e", " ", "A", "s", "t", "r", "o", "p", "h", "y", "s", "i">>
        \o <<"c", "a", "l", " ", "J", "o", "u", "r", "n", "a", "l">>
Journal_arXivEprints ==
    <<"a", "r", "X", "i", "v", " ", "e", "-", "p", "r", "i", "n", "t", "s">>
Journal_ASCL ==
    <<"A", "s", "t", "r", "o", "p", "h", "y", "s", "i", "c", "s", " ", "S">>
        \o <<"o", "u", "r", "c", "e", " ", "C", "o", "d", "e", " ", "L", "i", "b">>
        \o <<"r", "a", "r", "y">>
Bibcode_ascl ==
    <<"2", "0", "1", "9", "a", "s", "c", "l", ".", "s", "o", "f", "t", "0">>
        \o <<"2", "0", "0", "1", "S">>

\* A journal article, a preprint, a software-registry entry and a record of
\* unknown type, as _merge_multisource returns them.
JournalArticle(title, sources, citations) ==
    ("title" :> title) @@ ("journal" :> Journal_Astrophysical)
        @@ ("sources" :> sources) @@ ("citations" :> citations)

Preprint(title, sources, citations) ==
    ("title" :> title) @@ ("journal" :> Journal_arXivEprints)
        @@ ("sources" :> sources) @@ ("citations" :> citations)

SoftwareEntry(title, sources, citations) ==
    ("title" :> title) @@ ("journal" :> Journal_ASCL) @@ ("bibcode" :> Bibcode_ascl)
        @@ ("sources" :> sources) @@ ("citations" :> citations)

UnknownType(title, sources, citations) ==
    ("title" :> title) @@ ("sources" :> sources) @@ ("citations" :> citations)

MergedRecords ==
    { JournalArticle(Title_AbC, <<"base">>, 40),
      Preprint(Title_abc, <<"base">>, 35),
      SoftwareEntry(Title_ABC, <<"base">>, 2),
      UnknownType(Title_abc, <<"base">>, 2),
      Preprint(Title_abc, <<"base", "ads", "openalex", "google_scholar">>, 2000000),
      JournalArticle(Title_abc, <<"base">>, 40),
      Preprint(Title_AbC, <<"base", "ads">>, 2),
      Preprint(Title_abc, <<"base">>, 150000),
      JournalArticle(Title_de, <<"base">>, 0),
      UnknownType(Title_De, <<"base", "openalex">>, 2) }

InitDedup ==
    /\ pc = "call"
    /\ publications \in SeqUpTo(MergedRecords, MaxPubs)
    /\ deduplicated_list = Unused
    /\ SimIdle /\ MatchIdle /\ MergeIdle /\ ScoreIdle /\ PipelineIdle /\ NormalizeIdle
    /\ LegacyIdle

\* deduplicated_list = self._check_for_duplicates(publications)
CheckForDuplicates ==
    /\ pc = "call"
    /\ deduplicated_list' = _check_for_duplicates(publications)
    /\ pc' = "return"
    /\ UNCHANGED <<publications, simVars, matchVars, mergeVars, scoreVars,
                   pipelineVars, normalizeVars,
                   legacyVars>>

NextDedup == CheckForDuplicates

SpecDedup == InitDedup /\ [][NextDedup]_vars

---------------------------------------------------------------------------
(* Specification: one call of merge_publications_multisource *)

\* The longest paper_list drawn.
MaxPapers == 2

\* The base papers: two that become duplicates once merged, one matched by
\* its DOI only, one without a title.
PipelinePapers ==
    { ("title" :> Title_AbC) @@ ("year" :> 2020) @@ ("keywords" :> <<"k1">>)
          @@ ("citations" :> 5),
      ("title" :> Title_abc) @@ ("year" :> 2020) @@ ("journal" :> Journal_Astrophysical),
      ("title" :> Title_de) @@ ("year" :> 2021) @@ ("doi" :> Doi_d1),
      ("title" :> Title_blank) @@ ("year" :> 2022) }

\* Base papers that differ in their year: null, missing, or an integer.
YearPapers ==
    { ("title" :> Title_abd) @@ ("year" :> NoneYear),
      ("title" :> Title_AbC),
      ("title" :> Title_de) @@ ("year" :> 2021) @@ ("doi" :> Doi_d1),
      ("title" :> Title_abc) @@ ("year" :> 2020) }

\* What each source returned: nothing, or its records.
ScholarLists ==
    { <<>>,
      << ("title" :> Title_abc) @@ ("year" :> 2020) @@ ("abstract" :> Abs_abc)
             @@ ("keywords" :> <<"k3">>) @@ ("citations" :> 3)
             @@ ("arxivId" :> Arxiv_x1) @@ ("scholarUrl" :> Url_scholar) >> }

AdsLists ==
    { <<>>,
      << ("title" :> Title_abd) @@ ("year" :> 2020) @@ ("keywords" :> <<"k2">>)
             @@ ("citations" :> 7) @@ ("journal" :> Journal_MNRAS) @@ ("adsUrl" :> Url_ads),
         ("title" :> Title_abd) @@ ("year" :> 2019) @@ ("doi" :> Doi_D1)
             @@ ("citations" :> 2) >> }

OpenAlexLists ==
    { <<>>,
      << ("title" :> Title_AbC) @@ ("year" :> 2020) @@ ("abstract" :> Abs_ab)
             @@ ("keywords" :> <<"k1", "k2">>) @@ ("citations" :> 9)
             @@ ("openalexUrl" :> Url_openalex) >> }

\* The objects of the four lists before the call: record i of all is object
\* i, its keywords list object n + i, and the lists themselves follow.
HeapOf(papers, scholar, ads, openalex) ==
    LET all == papers \o scholar \o ads \o openalex
        n == Len(all)
        listRefs(from, len) == [j \in 1..len |-> Ref(from + j)]
        dicts == [i \in 1..n |->
                     IF "keywords" \in DOMAIN all[i]
                     THEN Put(all[i], "keywords", Ref(n + i)) ELSE all[i]]
        lists == [i \in {n + j : j \in {k \in 1..n : "keywords" \in DOMAIN all[k]}} |->
                     all[i - n]["keywords"]]
    IN  dicts @@ lists
          @@ (2 * n + 1 :> listRefs(0, Len(papers)))
          @@ (2 * n + 2 :> listRefs(Len(papers), Len(scholar)))
          @@ (2 * n + 3 :> listRefs(Len(papers) + Len(scholar), Len(ads)))
          @@ (2 * n + 4 :> listRefs(Len(papers) + Len(scholar) + Len(ads), Len(openalex)))

\* The state before a call whose paper_list is drawn from base_papers and
\* whose source lists are drawn from the three sets of lists.
BeforeCallWith(base_papers, scholar_lists, ads_lists, openalex_lists) ==
    /\ pc = "call"
    /\ \E papers \in SeqUpTo(base_papers, MaxPapers), scholar \in scholar_lists,
          ads \in ads_lists, openalex \in openalex_lists :
           LET n == Len(papers) + Len(scholar) + Len(ads) + Len(openalex)
           IN  /\ heap = HeapOf(papers, scholar, ads, openalex)
               /\ paper_list = 2 * n + 1
               /\ scholar_list = 2 * n + 2
               /\ ads_list = 2 * n + 3
               /\ openalex_list = 2 * n + 4
    /\ result = Unused
    /\ logged = Unused
    /\ raised = NoException
    /\ SimIdle /\ MatchIdle /\ MergeIdle /\ DedupIdle /\ ScoreIdle /\ NormalizeIdle
    /\ LegacyIdle

\* The state before a call whose paper_list is drawn from base_papers.
BeforeCall(base_papers) ==
    BeforeCallWith(base_papers, ScholarLists, AdsLists, OpenAlexLists)

InitPipeline == BeforeCall(PipelinePapers)

\* The call returns r: the objects are as the call left them.
Returns(r) ==
    heap' = r.heap /\ result' = r.result /\ logged' = r.logged /\ raised' = r.raised

\* result = merger.merge_publications_multisource(paper_list, scholar_data,
\*                                                ads_data, openalex_data)
MergePublicationsMultisource ==
    /\ pc = "call"
    /\ \E srcOrder \in Orderings(SourceNames), kwOrder \in Orderings(Keywords) :
           Returns(merge_publications_multisource(heap, paper_list, scholar_list,
                       ads_list, openalex_list, srcOrder, kwOrder))
    /\ pc' = "return"
    /\ UNCHANGED <<paper_list, scholar_list, ads_list, openalex_list,
                   simVars, matchVars, mergeVars, dedupVars, scoreVars, normalizeVars,
                   legacyVars>>

NextPipeline == MergePublicationsMultisource

SpecPipeline == InitPipeline /\ [][NextPipeline]_vars

\* The same call on base papers that differ in their year.
InitPipelineYears == BeforeCall(YearPapers)

SpecPipelineYears == InitPipelineYears /\ [][NextPipeline]_vars

\* Base papers without a DOI, a Scholar record with the title of the first
\* and a DOI, an ADS record with the title of the second, and an OpenAlex
\* record with that DOI and the title of the third.
DoiPapers ==
    { ("title" :> Title_abc) @@ ("year" :> 2020),
      ("title" :> Title_abd) @@ ("year" :> 2020),
      ("title" :> Title_de) @@ ("year" :> 2020) }

DoiScholarLists ==
    { <<>>,
      << ("title" :> Title_abc) @@ ("year" :> 2020) @@ ("doi" :> Doi_d1)
             @@ ("citations" :> 3) @@ ("scholarUrl" :> Url_scholar) >> }

DoiAdsLists ==
    { <<>>,
      << ("title" :> Title_abd) @@ ("year" :> 2020) @@ ("citations" :> 7)
             @@ ("adsUrl" :> Url_ads) >> }

DoiOpenAlexLists ==
    { <<>>,
      << ("title" :> Title_de) @@ ("year" :> 2019) @@ ("doi" :> Doi_D1)
             @@ ("citations" :> 9) @@ ("openalexUrl" :> Url_openalex) >> }

InitPipelineDoi ==
    BeforeCallWith(DoiPapers, DoiScholarLists, DoiAdsLists, DoiOpenAlexLists)

SpecPipelineDoi == InitPipelineDoi /\ [][NextPipeline]_vars

---------------------------------------------------------------------------
(* Specification: one call of the legacy merge_publications *)

\* The longest lists drawn.
MaxLegacy == 2

\* ADS records: two that the first Scholar record matches, one that differs
\* from it in the year only, one without a title that shares its DOI.
LegacyAdsPapers ==
    { ("title" :> Title_abc) @@ ("year" :> 2020) @@ ("citations" :> 7)
          @@ ("doi" :> Doi_d1) @@ ("abstract" :> Abs_a),
      ("title" :> Title_AbC) @@ ("year" :> 2020) @@ ("citations" :> 2),
      ("title" :> Title_abc) @@ ("year" :> 2021),
      ("doi" :> Doi_D1) @@ ("year" :> 2019) }

LegacyScholarPapers ==
    { ("title" :> Title_abc) @@ ("year" :> 2020) @@ ("citations" :> 9)
          @@ ("doi" :> Doi_d1) @@ ("abstract" :> Abs_abc)
          @@ ("scholarUrl" :> Url_scholar),
      ("title" :> Title_abd) @@ ("year" :> 2020) @@ ("citations" :> 1),
      ("title" :> Title_de) @@ ("year" :> 2021),
      ("title" :> Title_AbC) @@ ("year" :> 2021) @@ ("arxivId" :> Arxiv_x1) }

InitLegacy ==
    /\ pc = "call"
    /\ legacy_scholar \in SeqUpTo(LegacyScholarPapers, MaxLegacy)
    /\ legacy_ads \in SeqUpTo(LegacyAdsPapers, MaxLegacy)
    /\ legacy_result = Unused
    /\ legacy_origin = Unused
    /\ legacy_raised = NoException
    /\ SimIdle /\ MatchIdle /\ MergeIdle /\ DedupIdle /\ ScoreIdle /\ PipelineIdle
    /\ NormalizeIdle

\* The call returns r, or raises.
LegacyReturns(r) ==
    legacy_result' = r.result /\ legacy_origin' = r.origin /\ legacy_raised' = r.raised

\* legacy_result = merger.merge_publications(legacy_scholar, legacy_ads)
MergePublications ==
    /\ pc = "call"
    /\ LegacyReturns(merge_publications(legacy_scholar, legacy_ads))
    /\ pc' = "return"
    /\ UNCHANGED <<legacy_scholar, legacy_ads, simVars, matchVars, mergeVars,
                   dedupVars, scoreVars, pipelineVars, normalizeVars>>

NextLegacy == MergePublications

SpecLegacy == InitLegacy /\ [][NextLegacy]_vars

---------------------------------------------------------------------------
(* Category scoring: apply_binary_priority_scoring.py *)

\* The keywords of the lexicon that occur in the publications scored below,
\* with their base weights, under the four labels in the order of the table.
\* No other keyword of the table occurs in those publications.
Kw_neural_network ==
    <<"n", "e", "u", "r", "a", "l", " ", "n", "e", "t", "w", "o", "r", "k">>
Kw_regression == <<"r", "e", "g", "r", "e", "s", "s", "i", "o", "n">>
Kw_spectra == <<"s", "p", "e", "c", "t", "r", "a">>
Kw_bias == <<"b", "i", "a", "s">>
Kw_label == <<"l", "a", "b", "e", "l">>
Kw_stable == <<"s", "t", "a", "b", "l", "e">>
Kw_mcmc == <<"m", "c", "m", "c">>
Kw_p_value == <<"p", "-", "v", "a", "l", "u", "e">>
Kw_beta == <<"b", "e", "t", "a">>
Kw_galaxy == <<"g", "a", "l", "a", "x", "y">>
Kw_star == <<"s", "t", "a", "r">>

\* A dict is kept here as the sequence of its items, <<key, value>>, in
\* insertion order: the order decides between labels of equal probability.
ENHANCED_METHODOLOGICAL_KEYWORDS ==
    << <<"Statistical Learning & AI",
         << <<Kw_neural_network, 15>>, <<Kw_spectra, 4>>, <<Kw_regression, 5>> >> >>,
       <<"Interpretability & Insight",
         << <<Kw_bias, 10>>, <<Kw_label, 6>>, <<Kw_stable, 4>> >> >>,
       <<"Inference & Computation",
         << <<Kw_mcmc, 15>>, <<Kw_p_value, 4>>, <<Kw_beta, 4>> >> >>,
       <<"Discovery & Understanding",
         << <<Kw_galaxy, 4>>, <<Kw_star, 3>>, <<Kw_spectra, 2>> >> >> >>

\* Priority multipliers of the labels.
METHODOLOGICAL_PRIORITY ==
    ("Statistical Learning & AI" :> 2) @@ ("Interpretability & Insight" :> 2)
        @@ ("Inference & Computation" :> 2) @@ ("Discovery & Understanding" :> 1)

\* Field weight multipliers.
FIELD_WEIGHTS == [title |-> 3, abstract |-> 1, keywords |-> 2]

\* publication.get('abstract', '')[:800]
AbstractLimit == 800

\* s[:n]
Prefix(s, n) == SubSeq(s, 1, IF Len(s) < n THEN Len(s) ELSE n)

\* ' '.join(list)
RECURSIVE Join(_)
Join(list) ==
    IF list = <<>> THEN <<>>
    ELSE IF Len(list) = 1 THEN Head(list)
    ELSE Head(list) \o <<" ">> \o Join(Tail(list))

\* re.sub(r'[^\w\s-]', ' ', text): what is not a word character, a space or
\* a hyphen becomes a space.
PunctToSpace(text) ==
    [i \in DOMAIN text |->
        IF IsWord(text[i]) \/ IsSpace(text[i]) \/ text[i] = "-" THEN text[i] ELSE " "]

\* re.sub(r'\s+', ' ', text): of every run of spaces the first one stays,
\* that is, a space that follows a space goes.
CollapseRuns(text) ==
    LET after == [i \in DOMAIN text |-> <<IF i > 1 THEN text[i - 1] ELSE "", text[i]>>]
        kept == SelectSeq(after, LAMBDA p : ~(IsSpace(p[1]) /\ IsSpace(p[2])))
    IN  [i \in DOMAIN kept |-> kept[i][2]]

clean_text(text) == CollapseRuns(Strip(PunctToSpace(Lower(text))))

\* \b at the gap before position p: a word character on exactly one side.
WordBoundary(text, p) ==
    LET wordAt(q) == q \in DOMAIN text /\ IsWord(text[q])
    IN  wordAt(p - 1) # wordAt(p)

\* re.search(r'\b' + re.escape(keyword) + r'\b', text, re.IGNORECASE)
keyword_present(keyword, text) ==
    \E i \in 1..(Len(text) - Len(keyword) + 1) :
        /\ OccursAt(Lower(text), Lower(keyword), i)
        /\ WordBoundary(text, i)
        /\ WordBoundary(text, i + Len(keyword))

\* The number of places where the keyword stands as a word in the text.
Occurrences(keyword, text) ==
    Cardinality({i \in 1..(Len(text) - Len(keyword) + 1) :
                    /\ OccursAt(Lower(text), Lower(keyword), i)
                    /\ WordBoundary(text, i)
                    /\ WordBoundary(text, i + Len(keyword))})

\* Mutant: every occurrence of the keyword in a field counts.
KeywordTotal_ByFrequency(keyword, base_weight, title_clean, abstract_clean, keywords_clean) ==
    base_weight * FIELD_WEIGHTS.title * Occurrences(keyword, title_clean)
    + base_weight * FIELD_WEIGHTS.abstract * Occurrences(keyword, abstract_clean)
    + base_weight * FIELD_WEIGHTS.keywords * Occurrences(keyword, keywords_clean)

\* keyword_total of one keyword: base_weight times the weights of the fields
\* the keyword is present in.
KeywordTotal(keyword, base_weight, title_clean, abstract_clean, keywords_clean) ==
    (IF keyword_present(keyword, title_clean)
         THEN base_weight * FIELD_WEIGHTS.title ELSE 0)
    + (IF keyword_present(keyword, abstract_clean)
         THEN base_weight * FIELD_WEIGHTS.abstract ELSE 0)
    + (IF keyword_present(keyword, keywords_clean)
         THEN base_weight * FIELD_WEIGHTS.keywords ELSE 0)

\* category_score of one label's keywords.
CategoryScore(category_keywords, title_clean, abstract_clean, keywords_clean) ==
    SumSeq([k \in DOMAIN category_keywords |->
               KeywordTotal(category_keywords[k][1], category_keywords[k][2],
                            title_clean, abstract_clean, keywords_clean)])

\* The items of category_scores, one per label in the order of the table.
\* The weights are whole numbers held in floats, so the scores are exact.
score_paper_binary_priority(pub) ==
    LET title == Get(pub, "title", <<>>)
        abstract == Prefix(Get(pub, "abstract", <<>>), AbstractLimit)
        keywords_text == Join(Get(pub, "keywords", <<>>))
        title_clean == clean_text(title)
        abstract_clean == clean_text(abstract)
        keywords_clean == clean_text(keywords_text)
    IN  [c \in DOMAIN ENHANCED_METHODOLOGICAL_KEYWORDS |->
            LET category == ENHANCED_METHODOLOGICAL_KEYWORDS[c][1]
                category_keywords == ENHANCED_METHODOLOGICAL_KEYWORDS[c][2]
            IN  <<category,
                  CategoryScore(category_keywords, title_clean, abstract_clean,
                                keywords_clean)
                      * Get(METHODOLOGICAL_PRIORITY, category, 1)>>]

\* A division by zero raises.
ZeroDivisionError == [raised |-> "ZeroDivisionError"]

\* The literal 0.25, as a fraction.
Quarter == <<1, 4>>

\* score / total_score for every item; a probability is the exact fraction
\* <<numerator, denominator>>.
DivideAll(scores, total) ==
    IF total = 0 THEN ZeroDivisionError
    ELSE [c \in DOMAIN scores |-> <<scores[c][1], <<scores[c][2], total>> >>]

\* Mutant: every score divided by the greatest score.
normalize_scores_ByMax(scores) ==
    IF scores = <<>> \/ \A c \in DOMAIN scores : scores[c][2] = 0
    THEN [c \in DOMAIN scores |-> <<scores[c][1], Quarter>>]
    ELSE DivideAll(scores, Max({scores[c][2] : c \in DOMAIN scores}))

\* Mutant: no fallback when every score is zero.
normalize_scores_NoFallback(scores) ==
    DivideAll(scores, SumSeq([c \in DOMAIN scores |-> scores[c][2]]))

normalize_scores(scores) ==
    IF scores = <<>> \/ \A c \in DOMAIN scores : scores[c][2] = 0
    THEN [c \in DOMAIN scores |-> <<scores[c][1], Quarter>>]
    ELSE DivideAll(scores, SumSeq([c \in DOMAIN scores |-> scores[c][2]]))

\* The default of the min_threshold parameter, 0.3.
min_threshold == <<3, 10>>

\* The category the website falls back to (config.py).
default_category == "Discovery & Understanding"

\* Mutant: of the items of greatest probability the last one comes first.
SortedFirst_LastOfTied(probs) ==
    LET top == CHOOSE c \in DOMAIN probs :
                   /\ \A d \in DOMAIN probs : FracLe(probs[d][2], probs[c][2])
                   /\ \A d \in (c + 1)..Len(probs) : FracLt(probs[d][2], probs[c][2])
    IN  probs[top]

\* sorted(probabilities.items(), key=lambda x: x[1], reverse=True)[0]: the
\* sort is stable, the first item of greatest probability comes first.
SortedFirst(probs) ==
    LET top == CHOOSE c \in DOMAIN probs :
                   /\ \A d \in DOMAIN probs : FracLe(probs[d][2], probs[c][2])
                   /\ \A d \in 1..(c - 1) : FracLt(probs[d][2], probs[c][2])
    IN  probs[top]

\* Mutant: below the threshold the default category is assigned.
assign_primary_category_Gated(probs) ==
    IF FracLe(min_threshold, SortedFirst(probs)[2])
    THEN SortedFirst(probs)[1]
    ELSE default_category

assign_primary_category(probs) ==
    IF FracLe(min_threshold, SortedFirst(probs)[2])
    THEN SortedFirst(probs)[1]
    ELSE SortedFirst(probs)[1]

---------------------------------------------------------------------------
(* Specification: one publication scored by process_all_publications *)

Text_none == <<>>
Title_starry ==
    <<"S", "t", "a", "r", "r", "y", " ", "B", "e", "t", "a", "s">>
Title_neural ==
    <<"N", "e", "u", "r", "a", "l", ",", " ", "N", "e", "t", "w", "o", "r">>
        \o <<"k", " ", "R", "e", "g", "r", "e", "s", "s", "i", "o", "n">>
Title_galaxy_bias ==
    <<"G", "a", "l", "a", "x", "y", " ", "B", "i", "a", "s">>
Title_mcmc ==
    <<"M", "C", "M", "C", " ", "p", "-", "v", "a", "l", "u", "e">>

Abs_three_labels ==
    <<"r", "e", "g", "r", "e", "s", "s", "i", "o", "n", " ", "s", "t", "a">>
        \o <<"b", "l", "e", " ", "b", "e", "t", "a">>
Abs_repeated ==
    <<"b", "i", "a", "s", " ", "b", "i", "a", "s", ";", " ", "b", "i", "a">>
        \o <<"s", "-", "f", "r", "e", "e", " ", "l", "a", "b", "e", "l">>
Abs_spectra ==
    <<"s", "p", "e", "c", "t", "r", "a", " ", "o", "f", " ", "a", " ", "s">>
        \o <<"t", "a", "r">>
Abs_tie ==
    <<"s", "t", "a", "b", "l", "e", " ", "b", "e", "t", "a">>
\* An abstract longer than the limit, with a keyword on either side of it.
Abs_long ==
    <<"m", "c", "m", "c", " ">> \o [i \in 1..AbstractLimit |-> "."]
        \o <<" ", "g", "a", "l", "a", "x", "y">>

ScoredTitles == {Text_none, Title_starry, Title_neural, Title_galaxy_bias, Title_mcmc}

ScoredAbstracts ==
    {Text_none, Abs_three_labels, Abs_repeated, Abs_spectra, Abs_tie, Abs_long}

ScoredKeywords ==
    { <<>>, <<Kw_galaxy>>, <<Kw_star, Kw_spectra>>,
      << <<"n", "e", "u", "r", "a", "l">>, <<"n", "e", "t", "w", "o", "r", "k">> >> }

InitScore ==
    /\ pc = "call"
    /\ \E title \in ScoredTitles, abstract \in ScoredAbstracts, keywords \in ScoredKeywords :
           publication = ("title" :> title) @@ ("abstract" :> abstract)
                             @@ ("keywords" :> keywords)
    /\ category_scores = Unused /\ probabilities = Unused /\ researchArea = Unused
    /\ SimIdle /\ MatchIdle /\ MergeIdle /\ DedupIdle /\ PipelineIdle /\ NormalizeIdle
    /\ LegacyIdle

\* One turn of the loop of process_all_publications: the publication is
\* scored, the scores are normalized and the primary category is assigned;
\* when a step raises the publication is kept as it was.
ScorePublication ==
    /\ pc = "call"
    /\ LET scores == score_paper_binary_priority(publication)
           probs == normalize_scores(scores)
       IN  IF probs = ZeroDivisionError
           THEN /\ category_scores' = None
                /\ probabilities' = Get(publication, "categoryProbabilities", None)
                /\ researchArea' = Get(publication, "researchArea", None)
           ELSE /\ category_scores' = scores
                /\ probabilities' = probs
                /\ researchArea' = assign_primary_category(probs)
    /\ pc' = "return"
    /\ UNCHANGED <<publication, simVars, matchVars, mergeVars, dedupVars,
                   pipelineVars, normalizeVars,
                   legacyVars>>

NextScore == ScorePublication

SpecScore == InitScore /\ [][NextScore]_vars

---------------------------------------------------------------------------
(* Claims about _find_best_match and _calculate_similarity *)

\* The similarities of the candidates of the call in progress.
CandidateScores ==
    [i \in DOMAIN source_data |-> _calculate_similarity(target_paper, source_data[i])]

Accepted(score) == FracLe(MatchThreshold, score)

\* What C5 says of a finished call: none exactly when no candidate reaches
\* the threshold, otherwise a candidate of maximum similarity.
MatchIsBestOrNone ==
    /\ best_match = None <=> ~\E i \in DOMAIN source_data : Accepted(CandidateScores[i])
    /\ best_match # None =>
          \E i \in DOMAIN source_data :
              /\ best_match = source_data[i]
              /\ \A j \in DOMAIN source_data :
                     FracLe(CandidateScores[j], CandidateScores[i])

TargetTitleBlank == Strip(Get(target_paper, "title", <<>>)) = <<>>

\* C5 as stated: for every target and candidate list, _find_best_match
\* returns none exactly when no candidate has similarity >= 0.67, and
\* otherwise a candidate whose similarity is the maximum over the list.
C5_AsStated == pc = "return" => MatchIsBestOrNone

\* C5, amended: a target whose title is missing or blank gets none whatever
\* the candidates are; for every other target _find_best_match returns none
\* exactly when no candidate has similarity >= 0.67, and otherwise a
\* candidate whose similarity is the maximum over the list.
C5_BestMatchForTitledTarget ==
    pc = "return" =>
        IF TargetTitleBlank THEN best_match = None ELSE MatchIsBestOrNone

\* A titled target whose second candidate is accepted and beats an accepted
\* first candidate: the maximum, not the first acceptable one, is returned.
C5_Witness ==
    /\ pc = "return"
    /\ ~TargetTitleBlank
    /\ Len(source_data) = 2
    /\ Accepted(CandidateScores[1])
    /\ FracLt(CandidateScores[1], CandidateScores[2])
    /\ best_match = source_data[2]

\* Both publications carry a non-empty value under key and the two values
\* are equal ignoring case.
SharedIdentifier(key) ==
    /\ key \in DOMAIN pubA /\ key \in DOMAIN pubB
    /\ pubA[key] # <<>> /\ pubB[key] # <<>>
    /\ Lower(pubA[key]) = Lower(pubB[key])

\* C6: two publications that share a non-empty DOI, or a non-empty arXiv id,
\* ignoring case, have similarity exactly 1.0, whatever their titles and
\* years; 1.0 passes the 0.67 threshold.
C6_IdentifierFastPath ==
    (pc = "return" /\ (SharedIdentifier("doi") \/ SharedIdentifier("arxivId")))
        => similarity = <<1, 1>> /\ Accepted(similarity)

\* The DOIs differ only in case, the titles and the years differ, and the
\* title and year alone would not reach the threshold.
C6_Witness ==
    /\ pc = "return"
    /\ SharedIdentifier("doi")
    /\ pubA["doi"] # pubB["doi"]
    /\ ~SameYear(pubA, pubB)
    /\ ~Accepted(<<7 * TitleScore(pubA, pubB)[1], 10 * TitleScore(pubA, pubB)[2]>>)
    /\ similarity = <<1, 1>>

\* C18: _calculate_similarity is symmetric: the similarity of pubA and pubB
\* is the similarity of pubB and pubA.
C18_SimilaritySymmetric ==
    pc = "return" => FracEq(similarity, _calculate_similarity(pubB, pubA))

\* Candidate i and the target have the same normalized title: the titles
\* differ at most in letter case, punctuation, markup and spacing.
SameNormalizedTitle(i) ==
    _normalize_title(Get(target_paper, "title", <<>>))
        = _normalize_title(Get(source_data[i], "title", <<>>))

\* The years are equal or an identifier is shared.
YearOrIdentifierShared(i) ==
    \/ SameYear(target_paper, source_data[i])
    \/ IdentifierMatch(target_paper, source_data[i])

\* C19 as stated: a candidate whose normalized title equals the target's has
\* similarity >= 0.95 and the call returns a match, whatever the years.
C19_AsStated ==
    pc = "return" =>
        \A i \in DOMAIN source_data :
            SameNormalizedTitle(i) =>
                /\ FracLe(<<95, 100>>, CandidateScores[i])
                /\ best_match # None

\* C19: a candidate whose normalized title equals the target's has
\* similarity 1.0 when the years are equal or an identifier is shared and
\* 0.7 otherwise; both pass the threshold, so for a target whose title is not
\* blank the call returns a match at least as similar as that candidate, and
\* that candidate when it is the only one.
C19_EqualTitlesAccepted ==
    pc = "return" =>
        \A i \in DOMAIN source_data :
            SameNormalizedTitle(i) =>
                /\ FracEq(CandidateScores[i],
                          IF YearOrIdentifierShared(i) THEN <<1, 1>> ELSE <<7, 10>>)
                /\ ~TargetTitleBlank =>
                      /\ best_match # None
                      /\ \E j \in DOMAIN source_data :
                             /\ best_match = source_data[j]
                             /\ FracLe(CandidateScores[i], CandidateScores[j])
                      /\ Len(source_data) = 1 => best_match = source_data[1]

\* The only candidate has the target's title in another case and without its
\* punctuation, another year and no identifier; it was returned with 0.7.
C19_Witness ==
    /\ pc = "return"
    /\ Len(source_data) = 1
    /\ SameNormalizedTitle(1)
    /\ Get(target_paper, "title", <<>>) # Get(source_data[1], "title", <<>>)
    /\ ~YearOrIdentifierShared(1)
    /\ FracEq(CandidateScores[1], <<7, 10>>)
    /\ best_match = source_data[1]

---------------------------------------------------------------------------
(* Claims about _merge_multisource *)

Returned == pc = "return" /\ merged # None

\* The sources whose match is not none.
MatchedSources == {m \in {ads_match, openalex_match, scholar_match} : m # None}

BaseTitle == Get(base_paper, "title", <<>>)

AbstractOf(paper) == Get(paper, "abstract", <<>>)

\* C4 as stated: for a base record with a non-empty title, the returned
\* record's title is the base record's title, whatever the matches are.
C4_AsStated == (Returned /\ BaseTitle # <<>>) => merged["title"] = BaseTitle

\* The title after the ADS step: the ADS match's, when there is an ADS match
\* and it has a title key, and else the base record's.
TitleAfterAds ==
    IF Truthy(ads_match) /\ "title" \in DOMAIN ads_match
    THEN ads_match["title"] ELSE BaseTitle

\* C4, amended: for a base record with a non-empty title, the OpenAlex and
\* Google Scholar matches never change the title, but an ADS match that has a
\* title key replaces it: the returned record's title is the ADS match's
\* title if there is one and the base record's title otherwise, and no record
\* is returned when that title is empty.
C4_TitleFromAdsElseBase ==
    (pc = "return" /\ BaseTitle # <<>>) =>
        IF TitleAfterAds = <<>> THEN merged = None
        ELSE merged # None /\ merged["title"] = TitleAfterAds

\* No ADS match, OpenAlex and Scholar matches with other titles: the base
\* title is kept.
C4_Witness ==
    /\ Returned
    /\ BaseTitle # <<>>
    /\ ads_match = None
    /\ openalex_match # None /\ openalex_match["title"] # BaseTitle
    /\ scholar_match # None /\ scholar_match["title"] # BaseTitle
    /\ merged["title"] = BaseTitle

\* C10 as stated: the returned record's abstract is at least as long as the
\* base record's abstract and as every matched source's abstract.
C10_AsStated ==
    Returned =>
        \A p \in {base_paper} \cup MatchedSources :
            Len(AbstractOf(merged)) >= Len(AbstractOf(p))

\* The abstract after the ADS step: the ADS match's, when there is an ADS
\* match and it has an abstract key, and else the base record's.
AbstractAfterAds ==
    IF Truthy(ads_match) /\ "abstract" \in DOMAIN ads_match
    THEN ads_match["abstract"] ELSE AbstractOf(base_paper)

\* The abstracts the returned record's abstract is chosen from.
AbstractCandidates ==
    {AbstractAfterAds}
        \cup {AbstractOf(p) : p \in {openalex_match, scholar_match} \cap MatchedSources}

\* C10, amended: an ADS match that has an abstract key replaces the base
\* record's abstract, even by a shorter or an empty one; the returned
\* record's abstract is the longest among the abstract after that step and
\* the abstracts of the OpenAlex and Google Scholar matches.
C10_LongestAfterAds ==
    Returned =>
        /\ AbstractOf(merged) \in AbstractCandidates
        /\ \A a \in AbstractCandidates : Len(AbstractOf(merged)) >= Len(a)

\* The OpenAlex abstract is longer than the one after the ADS step and the
\* Scholar abstract is shorter than the OpenAlex one: OpenAlex's is returned.
C10_Witness ==
    /\ Returned
    /\ openalex_match # None /\ scholar_match # None
    /\ Len(AbstractOf(openalex_match)) > Len(AbstractAfterAds)
    /\ Len(AbstractOf(scholar_match)) < Len(AbstractOf(openalex_match))
    /\ Len(AbstractOf(scholar_match)) > 0
    /\ AbstractOf(merged) = AbstractOf(openalex_match)

\* The keywords of a record, as a set.
KeywordSet(paper) == Range(Get(paper, "keywords", <<>>))

\* C11 as stated: the returned record's keywords are, as a set, the union of
\* the keywords of the base record and of every matched source record.
C11_AsStated ==
    Returned =>
        KeywordSet(merged) = UNION {KeywordSet(p) : p \in {base_paper} \cup MatchedSources}

\* The record whose keywords stand after the ADS step: the ADS match, when
\* there is one and it has a keywords key, and else the base record.
KeywordsHolderAfterAds ==
    IF Truthy(ads_match) /\ "keywords" \in DOMAIN ads_match THEN ads_match ELSE base_paper

\* C11, amended: an ADS match that has a keywords key replaces the base
\* record's keywords; with an OpenAlex match the returned keywords are, as a
\* set and without repetition, the union of the keywords after the ADS step
\* and the OpenAlex match's; without one they are the keywords after the ADS
\* step as they were; the Google Scholar match's keywords are never used.
C11_KeywordsAfterAdsWithOpenAlex ==
    Returned =>
        IF Truthy(openalex_match)
        THEN /\ "keywords" \in DOMAIN merged
             /\ KeywordSet(merged)
                    = KeywordSet(KeywordsHolderAfterAds) \cup KeywordSet(openalex_match)
             /\ Len(merged["keywords"]) = Cardinality(KeywordSet(merged))
        ELSE /\ "keywords" \in DOMAIN merged <=> "keywords" \in DOMAIN KeywordsHolderAfterAds
             /\ Get(merged, "keywords", <<>>) = Get(KeywordsHolderAfterAds, "keywords", <<>>)

\* The three sources matched, each with keywords: the base record's keyword
\* is replaced by the ADS match's and the Scholar match's is left out.
C11_Witness ==
    /\ Returned
    /\ ads_match # None /\ openalex_match # None /\ scholar_match # None
    /\ KeywordSet(ads_match) # {} /\ KeywordSet(openalex_match) # {}
    /\ KeywordSet(merged) = KeywordSet(ads_match) \cup KeywordSet(openalex_match)
    /\ KeywordSet(base_paper) \ KeywordSet(merged) # {}
    /\ KeywordSet(scholar_match) \ KeywordSet(merged) # {}

\* The matches the three `if <source>_data:` tests accept, by source name.
MatchBySource ==
    (IF Truthy(ads_match) THEN "ads" :> ads_match ELSE EmptyDict)
    @@ (IF Truthy(openalex_match) THEN "openalex" :> openalex_match ELSE EmptyDict)
    @@ (IF Truthy(scholar_match) THEN "google_scholar" :> scholar_match ELSE EmptyDict)

\* C12: when at least one source matched, citations_by_source has exactly
\* one entry per matched source, holding the citations that source reports
\* (0 when it reports none), and the merged citations are the maximum of the
\* entries; when no source matched, the merged citations are the base
\* record's, or 0 when it has none.
C12_CitationsMaxOfSources ==
    Returned =>
        IF DOMAIN MatchBySource # {}
        THEN /\ "citations_by_source" \in DOMAIN merged
             /\ DOMAIN merged["citations_by_source"] = DOMAIN MatchBySource
             /\ \A s \in DOMAIN MatchBySource :
                    merged["citations_by_source"][s] = Get(MatchBySource[s], "citations", 0)
             /\ merged["citations"] \in Range(merged["citations_by_source"])
             /\ \A s \in DOMAIN MatchBySource :
                    merged["citations"] >= merged["citations_by_source"][s]
        ELSE merged["citations"] = Get(base_paper, "citations", 0)

\* One source matched, reporting fewer citations than the base record has:
\* the merged citations are the source's.
C12_Witness ==
    /\ Returned
    /\ DOMAIN MatchBySource = {"google_scholar"}
    /\ "citations" \in DOMAIN base_paper
    /\ scholar_match["citations"] < base_paper["citations"]
    /\ merged["citations"] = scholar_match["citations"]
    /\ merged["citations_by_source"] = ("google_scholar" :> scholar_match["citations"])

\* C13: the sources of a returned record are, as a set, the base record's
\* source name together with the name of every matched source, each once;
\* they are never empty.
C13_SourcesAreBaseAndMatched ==
    Returned =>
        /\ Range(merged["sources"])
               = {Get(base_paper, "source", "base")} \cup DOMAIN MatchBySource
        /\ Len(merged["sources"]) = Cardinality(Range(merged["sources"]))
        /\ merged["sources"] # <<>>

\* A base record that came from ADS, matched by ADS and by Scholar: "ads" is
\* listed once.
C13_Witness ==
    /\ Returned
    /\ Get(base_paper, "source", "base") = "ads"
    /\ DOMAIN MatchBySource = {"ads", "google_scholar"}
    /\ Range(merged["sources"]) = {"ads", "google_scholar"}
    /\ Len(merged["sources"]) = 2

\* The scalar fields C14 names.
ScalarFields == {"journal", "year", "doi", "arxivId"}

\* The record has the field with a non-empty value (a year, a citation
\* count and a source name are never empty).
NonEmpty(paper, key) ==
    key \in DOMAIN paper /\ (key \in {"year", "citations", "source"} \/ paper[key] # <<>>)

\* The matched sources with a non-empty value of the field, in the order the
\* code visits the sources.
SourcesWith(key) ==
    SelectSeq(<<"ads", "openalex", "google_scholar">>,
              LAMBDA s : s \in DOMAIN MatchBySource /\ NonEmpty(MatchBySource[s], key))

\* C14 as stated: a non-empty value of the base record is kept whatever the
\* matched sources report, and an empty one is filled from the first source
\* that has a value.
C14_AsStated ==
    Returned =>
        \A key \in ScalarFields :
            IF NonEmpty(base_paper, key) THEN merged[key] = base_paper[key]
            ELSE IF SourcesWith(key) = <<>> THEN ~NonEmpty(merged, key)
            ELSE /\ key \in DOMAIN merged
                 /\ merged[key] = MatchBySource[SourcesWith(key)[1]][key]

\* The record holding the field after the ADS step: the ADS match when it
\* has the key, else the base record (which may lack it).
HolderAfterAds(key) ==
    IF Truthy(ads_match) /\ key \in DOMAIN ads_match THEN ads_match ELSE base_paper

\* C14, amended: an ADS match replaces every field it has a key for, also a
\* non-empty value of the base record and also by an empty value; the
\* OpenAlex match fills none of these fields; the Scholar match fills doi
\* and arxivId only, and only when the key is absent after the ADS step.
C14_AdsReplacesScholarFillsIdentifiers ==
    Returned =>
        \A key \in ScalarFields :
            IF key \in DOMAIN HolderAfterAds(key)
            THEN key \in DOMAIN merged /\ merged[key] = HolderAfterAds(key)[key]
            ELSE IF key \in {"doi", "arxivId"} /\ Truthy(scholar_match)
                    /\ key \in DOMAIN scholar_match
            THEN key \in DOMAIN merged /\ merged[key] = scholar_match[key]
            ELSE key \notin DOMAIN merged

\* The ADS match's journal replaces the base record's, and the arXiv id that
\* only the Scholar match has is filled in.
C14_Witness ==
    /\ Returned
    /\ Truthy(ads_match) /\ Truthy(scholar_match)
    /\ NonEmpty(base_paper, "journal") /\ NonEmpty(ads_match, "journal")
    /\ ads_match["journal"] # base_paper["journal"]
    /\ merged["journal"] = ads_match["journal"]
    /\ "arxivId" \notin DOMAIN base_paper \cup DOMAIN ads_match
    /\ NonEmpty(scholar_match, "arxivId")
    /\ merged["arxivId"] = scholar_match["arxivId"]

SpecialFields == {"abstract", "keywords", "citations", "citations_by_source", "sources"}

\* The keys of the base record and of the ADS match, if there is one.
KeysAfterAds == DOMAIN base_paper \cup (IF Truthy(ads_match) THEN DOMAIN ads_match ELSE {})

AbsentSources ==
    (IF ads_match = None THEN {"ads"} ELSE {})
    \cup (IF openalex_match = None THEN {"openalex"} ELSE {})
    \cup (IF scholar_match = None THEN {"google_scholar"} ELSE {})

\* The records a field value of the merged record can come from: the base
\* record and the matches that are there.
FieldOrigins == {base_paper} \cup {MatchBySource[s] : s \in DOMAIN MatchBySource}

\* The fields _merge_multisource computes instead of copying.
ComputedFields == {"citations", "citations_by_source", "sources", "keywords"}

\* Every copied field of the merged record has the value the base record or
\* a present match has for it, and every keyword is one of theirs.
FieldsFromOrigins ==
    /\ \A key \in DOMAIN merged \ ComputedFields :
           \E p \in FieldOrigins : key \in DOMAIN p /\ p[key] = merged[key]
    /\ Range(Get(merged, "keywords", <<>>))
           \subseteq UNION {Range(Get(p, "keywords", <<>>)) : p \in FieldOrigins}

\* The base record with the citations and the sources the merge always sets.
BaseOnly ==
    Put(Put(base_paper, "citations", Get(base_paper, "citations", 0)),
        "sources", <<Get(base_paper, "source", "base")>>)

\* The candidate lists none of whose candidates reaches the threshold for
\* the base record; the empty list is one of them.
ListsWithoutMatch ==
    {data \in SeqUpTo(CandidatePapers, MaxCandidates) :
        \A i \in DOMAIN data :
            FracLt(_calculate_similarity(base_paper, data[i]), MatchThreshold)}

NoMatchIsNone ==
    \A data \in ListsWithoutMatch : _find_best_match(base_paper, data) = None

\* C23 as stated: whenever a source is none, a merged record is returned and
\* the source's name is in neither sources nor citations_by_source.
C23_AsStated ==
    (pc = "return" /\ AbsentSources # {}) =>
        /\ merged # None
        /\ \A s \in AbsentSources :
               /\ s \notin Range(merged["sources"])
               /\ s \notin DOMAIN Get(merged, "citations_by_source", EmptyDict)

\* C23, amended: a list with no candidate at the threshold gives none.  With
\* a source none, _merge_multisource returns a record exactly when the title
\* after the ADS step is not empty; in that record the source has no entry in
\* citations_by_source, is in sources only when it is the base record's own
\* source name, and every field value is the base record's or a present
\* match's; with all three sources none the record is the base record with
\* citations (0 when it has none) and sources (its own source name) set.
C23_AbsentSourceLeavesNoTrace ==
    (pc = "return" /\ AbsentSources # {}) =>
        /\ NoMatchIsNone
        /\ ((merged # None) <=> (TitleAfterAds # <<>>))
        /\ merged # None =>
               /\ \A s \in AbsentSources :
                      /\ s \notin DOMAIN Get(merged, "citations_by_source", EmptyDict)
                      /\ s \in Range(merged["sources"])
                             => s = Get(base_paper, "source", "base")
               /\ FieldsFromOrigins
               /\ AbsentSources = {"ads", "openalex", "google_scholar"}
                      => merged = BaseOnly

\* No source matched a base record that has citations but no source name:
\* the merged record is the base record plus sources <<"base">>.
C23_Witness ==
    /\ Returned
    /\ AbsentSources = {"ads", "openalex", "google_scholar"}
    /\ "source" \notin DOMAIN base_paper
    /\ base_paper["citations"] = 5
    /\ merged = base_paper @@ ("sources" :> <<"base">>)

---------------------------------------------------------------------------
(* Claims about _check_for_duplicates *)

\* The normalized title of a record, as the claims speak of it.
NormalizedTitle(p) == _normalize_title(Get(p, "title", <<>>))

\* The records of publications with the normalized title of record r.
GroupMembers(r) == {q \in Range(publications) : NormalizedTitle(q) = NormalizedTitle(r)}

\* C1: the result holds exactly one record per distinct normalized title of
\* the input: no two results share a normalized title, every normalized
\* title of the input occurs in the result, every result is an input record,
\* and a record alone in its group is in the result.
C1_OnePerNormalizedTitle ==
    pc = "return" =>
        /\ \A i, j \in DOMAIN deduplicated_list :
               i # j => NormalizedTitle(deduplicated_list[i]) # NormalizedTitle(deduplicated_list[j])
        /\ \A p \in Range(publications) :
               \E r \in Range(deduplicated_list) : NormalizedTitle(r) = NormalizedTitle(p)
        /\ Range(deduplicated_list) \subseteq Range(publications)
        /\ \A p \in Range(publications) :
               GroupMembers(p) = {p} => p \in Range(deduplicated_list)

\* Three records, two of them duplicates with titles that differ as written:
\* two records are returned.
C1_Witness ==
    /\ pc = "return"
    /\ Len(publications) = 3
    /\ Len(deduplicated_list) = 2
    /\ \E i, j \in DOMAIN publications :
           /\ i # j
           /\ NormalizedTitle(publications[i]) = NormalizedTitle(publications[j])
           /\ publications[i]["title"] # publications[j]["title"]

\* C2: the record kept of a duplicate group has the highest publication-type
\* priority present in the group, whatever the citation counts and the
\* numbers of sources of the group's records are.
C2_KeptHasHighestPriority ==
    pc = "return" =>
        \A r \in Range(deduplicated_list) : \A q \in GroupMembers(r) :
            _get_publication_priority(q) <= _get_publication_priority(r)

\* The publication type of a record of MergedRecords, by how it was built.
IsJournalArticle(p) == Get(p, "journal", <<>>) = Journal_Astrophysical
IsPreprint(p) == Get(p, "journal", <<>>) = Journal_arXivEprints
IsSoftwareEntry(p) == Get(p, "bibcode", <<>>) = Bibcode_ascl
IsUnknownType(p) == "journal" \notin DOMAIN p /\ "bibcode" \notin DOMAIN p

\* The order of the types C3 states, and the order the code implements.
RankAsStated(p) ==
    CASE IsJournalArticle(p) -> 4 [] IsPreprint(p) -> 3
      [] IsSoftwareEntry(p) -> 2 [] IsUnknownType(p) -> 1

RankAmended(p) ==
    CASE IsJournalArticle(p) -> 4 [] IsPreprint(p) -> 3
      [] IsUnknownType(p) -> 2 [] IsSoftwareEntry(p) -> 1

\* A group of exactly a software-registry record and a record of unknown
\* type with the same number of sources and the same citations.
SoftwareAndUnknownGroup ==
    /\ Len(publications) = 2
    /\ NormalizedTitle(publications[1]) = NormalizedTitle(publications[2])
    /\ \E i, j \in 1..2 :
           /\ IsSoftwareEntry(publications[i]) /\ IsUnknownType(publications[j])
    /\ Len(publications[1]["sources"]) = Len(publications[2]["sources"])
    /\ publications[1]["citations"] = publications[2]["citations"]

\* C3 as stated: the priority orders the types journal article > preprint >
\* software-registry entry > unknown type, and of a software-registry record
\* and an otherwise equal record of unknown type the software-registry
\* record is kept.
C3_AsStated ==
    pc = "return" =>
        /\ \A p, q \in Range(publications) :
               RankAsStated(p) > RankAsStated(q)
                   => _get_publication_priority(p) > _get_publication_priority(q)
        /\ SoftwareAndUnknownGroup =>
               \A r \in Range(deduplicated_list) : IsSoftwareEntry(r)

\* C3, amended: the priority orders the types journal article > preprint >
\* unknown type > software-registry entry (ASCL and software records have
\* the lowest priority), and of a software-registry record and an otherwise
\* equal record of unknown type the record of unknown type is kept.
C3_UnknownAboveSoftware ==
    pc = "return" =>
        /\ \A p, q \in Range(publications) :
               RankAmended(p) > RankAmended(q)
                   => _get_publication_priority(p) > _get_publication_priority(q)
        /\ SoftwareAndUnknownGroup =>
               /\ Len(deduplicated_list) = 1
               /\ IsUnknownType(deduplicated_list[1])

\* The software-registry record comes first, the otherwise equal record of
\* unknown type second, and the second is the one kept.
C3_Witness ==
    /\ pc = "return"
    /\ SoftwareAndUnknownGroup
    /\ IsSoftwareEntry(publications[1])
    /\ deduplicated_list = <<publications[2]>>

\* The lists that hold the records of pubs in another order.
Reorderings(pubs) ==
    {[i \in DOMAIN pubs |-> pubs[p[i]]] :
        p \in {q \in [DOMAIN pubs -> DOMAIN pubs] : Range(q) = DOMAIN pubs}}

\* C24: the records kept do not depend on the order of the list: every
\* permutation of the list keeps the same record of each duplicate group,
\* also when two records of a group have equal composite scores.
C24_KeptIndependentOfOrder ==
    pc = "return" =>
        \A permuted \in Reorderings(publications) :
            Range(_check_for_duplicates(permuted)) = Range(deduplicated_list)

\* The indices of the records grouped with record i whose composite score is
\* the greatest of the group.
TopOfGroup(i) ==
    {j \in DOMAIN publications :
        /\ GroupKey(publications[j]) = GroupKey(publications[i])
        /\ \A k \in DOMAIN publications :
               GroupKey(publications[k]) = GroupKey(publications[i])
                   => CompositeScore(publications[k]) <= CompositeScore(publications[j])}

\* The records kept of the group of record i, in the order of the result.
KeptOf(i) ==
    SelectSeq(deduplicated_list,
              LAMBDA r : GroupKey(r) = GroupKey(publications[i]))

\* C25: when two or more records of a duplicate group share the group's
\* greatest composite score, exactly one record of the group is kept, the
\* one of them that comes first in the list; the call returns a list, and
\* the same list is returned for the same input.
C25_FirstOfTiedKept ==
    pc = "return" =>
        /\ \A i \in DOMAIN publications :
               Cardinality(TopOfGroup(i)) >= 2
                   => KeptOf(i) = <<publications[Min(TopOfGroup(i))]>>
        /\ deduplicated_list = _check_for_duplicates(publications)

\* Two journal articles with one source and 40 citations each, whose titles
\* differ as written: the first is kept.
C25_Witness ==
    /\ pc = "return"
    /\ Len(publications) = 2
    /\ TopOfGroup(1) = {1, 2}
    /\ publications[1] # publications[2]
    /\ deduplicated_list = <<publications[1]>>

\* C26: of the records of a duplicate group with the priority of the record
\* kept, none has more sources than the record kept, whatever the citations
\* are, and none with as many sources has more citations.
C26_SourcesBeforeCitations ==
    pc = "return" =>
        \A r \in Range(deduplicated_list) : \A q \in GroupMembers(r) :
            _get_publication_priority(q) = _get_publication_priority(r) =>
                /\ Len(q["sources"]) <= Len(r["sources"])
                /\ Len(q["sources"]) = Len(r["sources"])
                       => q["citations"] <= r["citations"]

---------------------------------------------------------------------------
(* Claims about _normalize_title *)

Normalized == pc = "return" /\ raw_title # Unused

\* C17: _normalize_title is idempotent: normalizing a title that
\* _normalize_title returned gives that title back, also when the original
\* held character references encoded twice, markup tags, punctuation, or
\* was empty.
C17_NormalizeIdempotent ==
    Normalized => _normalize_title(normalized_title) = normalized_title

\* A title with a reference encoded twice, a punctuation mark and a capital
\* letter was normalized to something else than itself.
C17_Witness ==
    /\ Normalized
    /\ Contains(raw_title, Piece_amp_lt)
    /\ Contains(raw_title, <<"!">>)
    /\ Contains(raw_title, <<"A">>)
    /\ normalized_title # <<>>
    /\ normalized_title # raw_title

\* C20: duplicate resolution is idempotent: _check_for_duplicates applied to
\* the list it returned returns that list, the same records in the same
\* order.
C20_DedupIdempotent ==
    pc = "return" => _check_for_duplicates(deduplicated_list) = deduplicated_list

\* The call removed a duplicate and returned more than one record.
C20_Witness ==
    /\ pc = "return"
    /\ Len(deduplicated_list) < Len(publications)
    /\ Len(deduplicated_list) > 1

---------------------------------------------------------------------------
(* Claims about merge_publications_multisource *)

\* The call has returned.
PipelineReturned == pc = "return" /\ result # Unused

\* C16: merge_publications_multisource changes none of its inputs: the four
\* lists, every record in them and every keywords list of those records are
\* after the call what they were before it. (Before the call the heap holds
\* exactly these objects.)
C16_InputsUnchanged ==
    [][(pc = "call" /\ pc' = "return") =>
          /\ <<paper_list, scholar_list, ads_list, openalex_list>>'
                 = <<paper_list, scholar_list, ads_list, openalex_list>>
          /\ \A id \in DOMAIN heap : id \in DOMAIN heap' /\ heap'[id] = heap[id]]_vars

\* Two papers were merged with matches of ADS and OpenAlex, and a returned
\* record refers to a keywords list made by the call, holding keywords of
\* two records.
C16_Witness ==
    /\ PipelineReturned
    /\ Len(heap[paper_list]) = 2
    /\ heap[ads_list] # <<>> /\ heap[openalex_list] # <<>>
    /\ \E r \in Range(result) :
           /\ "keywords" \in DOMAIN r
           /\ r["keywords"].ref > openalex_list
           /\ Cardinality(KeywordsOf(heap, r)) = 2
           /\ r["sources"] # <<>>

\* The base records of the call, by value.
PaperRecords == Records(heap, paper_list)

\* `not paper.get("title", "").strip()`
BlankTitle(paper) == Strip(Get(paper, "title", <<>>)) = <<>>

\* The base records the loop skips.
ExcludedPapers == {i \in DOMAIN PaperRecords : BlankTitle(PaperRecords[i])}

\* The title of the record merged from paper: the title of its ADS match if
\* that has one, else its own.
MergedTitleOf(paper) ==
    LET ads_data == _find_best_match(paper, Records(heap, ads_list))
    IN  IF Truthy(ads_data) /\ "title" \in DOMAIN ads_data
        THEN ads_data["title"] ELSE Get(paper, "title", <<>>)

\* No returned record comes from a base record without a title.
ExcludedAbsent ==
    /\ Len(result) <= Len(PaperRecords) - Cardinality(ExcludedPapers)
    /\ \A r \in Range(result) : ~BlankTitle(r)

\* Every base record with a title was matched and merged: the result holds
\* a record under the normalized title of its merged record.
OthersMerged ==
    \A i \in DOMAIN PaperRecords \ ExcludedPapers :
        \E r \in Range(result) :
            /\ NormalizedTitle(r) = _normalize_title(MergedTitleOf(PaperRecords[i]))
            /\ "sources" \in DOMAIN r

\* Some number that the call logged or printed is the number of records it
\* excluded.
ExcludedReported ==
    \E e \in Range(logged) : Cardinality(ExcludedPapers) \in Range(e.numbers)

\* C21: a base record whose title is missing, empty or whitespace-only is
\* left out of the result, every other base record is still matched and
\* merged, and the number of records left out is counted or reported.
C21_ExcludedAndReported ==
    (pc = "return" /\ ExcludedPapers # {}) =>
        ExcludedAbsent /\ OthersMerged /\ ExcludedReported

\* C22: a call whose records all have a title, some of them without a year
\* or with a null year, raises nothing and returns a list.
C22_NeverRaises ==
    (pc = "return" /\ ExcludedPapers = {}) => raised = NoException

\* The records of the Scholar and OpenAlex lists of the call, by value.
ScholarRecords == Records(heap, scholar_list)
OpenAlexRecords == Records(heap, openalex_list)

\* Base record i has no DOI of its own, its Scholar match carries a DOI, and
\* OpenAlex candidate j carries the same DOI under another title.
PropagatedDoi(i, j) ==
    LET paper == PaperRecords[i]
        scholar_match_of == _find_best_match(paper, ScholarRecords)
        candidate == OpenAlexRecords[j]
    IN  /\ ~BlankTitle(paper)
        /\ Get(paper, "doi", <<>>) = <<>>
        /\ Truthy(scholar_match_of)
        /\ Get(scholar_match_of, "doi", <<>>) # <<>>
        /\ Lower(Get(candidate, "doi", <<>>)) = Lower(scholar_match_of["doi"])
        /\ NormalizedTitle(candidate) # NormalizedTitle(paper)

\* C28: when a base record without a DOI has a match that carries a DOI, a
\* candidate of a third source with that DOI and another title has
\* similarity 1.0 with the base record and is matched to it: the record
\* merged from the base record has the third source among its sources.
C28_PropagatedDoiMatches ==
    pc = "return" =>
        \A i \in DOMAIN PaperRecords : \A j \in DOMAIN OpenAlexRecords :
            PropagatedDoi(i, j) =>
                /\ FracEq(_calculate_similarity(PaperRecords[i], OpenAlexRecords[j]),
                          <<1, 1>>)
                /\ _find_best_match(PaperRecords[i], OpenAlexRecords) = OpenAlexRecords[j]
                /\ \A r \in Range(result) :
                       r["title"] = PaperRecords[i]["title"]
                           => "openalex" \in Range(r["sources"])

---------------------------------------------------------------------------
(* Claims about the legacy merge_publications *)

\* The positions in the result of the records that hold ADS record i, and
\* of those that hold Scholar record j.
HoldingAds(i) == {k \in DOMAIN legacy_origin : legacy_origin[k][1] = i}
HoldingScholar(j) == {k \in DOMAIN legacy_origin : legacy_origin[k][2] = j}

\* The positions in the result of the merged pairs.
MergedPairs ==
    {k \in DOMAIN legacy_origin : legacy_origin[k][1] # 0 /\ legacy_origin[k][2] # 0}

\* C29: in the list merge_publications returns, every ADS record and every
\* Scholar record is held by exactly one record, so that no Scholar record
\* is merged with two ADS records; a record that holds both is their merge
\* and their similarity is strictly greater than 0.8, any other record is
\* the ADS or the Scholar record itself; the list has
\* len(ads) + len(scholar) - (number of merged pairs) records.
C29_LegacyMergeAccounting ==
    (pc = "return" /\ legacy_raised = NoException) =>
        /\ \A i \in DOMAIN legacy_ads : Cardinality(HoldingAds(i)) = 1
        /\ \A j \in DOMAIN legacy_scholar : Cardinality(HoldingScholar(j)) = 1
        /\ DOMAIN legacy_origin = DOMAIN legacy_result
        /\ \A k \in DOMAIN legacy_result :
               LET i == legacy_origin[k][1]
                   j == legacy_origin[k][2]
               IN  CASE i # 0 /\ j # 0 ->
                            /\ FracLt(<<8, 10>>,
                                      _calculate_similarity(legacy_ads[i], legacy_scholar[j]))
                            /\ legacy_result[k]
                                   = _merge_publications(legacy_ads[i], legacy_scholar[j])
                     [] i # 0 /\ j = 0 -> legacy_result[k] = legacy_ads[i]
                     [] i = 0 /\ j # 0 -> legacy_result[k] = legacy_scholar[j]
                     [] OTHER -> FALSE
        /\ Len(legacy_result)
               = Len(legacy_ads) + Len(legacy_scholar) - Cardinality(MergedPairs)

\* Two ADS records that both are similar enough to the one Scholar record:
\* the first is merged with it, the second is returned alone.
C29_Witness ==
    /\ pc = "return"
    /\ legacy_raised = NoException
    /\ Len(legacy_ads) = 2 /\ Len(legacy_scholar) = 1
    /\ \A i \in 1..2 :
           FracLt(<<8, 10>>, _calculate_similarity(legacy_ads[i], legacy_scholar[1]))
    /\ Cardinality(MergedPairs) = 1
    /\ Len(legacy_result) = 2
    /\ HoldingScholar(1) = HoldingAds(1)

---------------------------------------------------------------------------
(* Claims about category scoring *)

\* A publication has been through the loop of process_all_publications.
Scored == pc = "return" /\ publication # Unused

RECURSIVE GCD(_, _)
GCD(a, b) == IF b = 0 THEN a ELSE GCD(b, a % b)

\* The sum of two fractions, in lowest terms.
FracAdd(x, y) ==
    LET n == x[1] * y[2] + y[1] * x[2]
        d == x[2] * y[2]
        g == GCD(n, d)
    IN  <<n \div g, d \div g>>

RECURSIVE FracSum(_)
FracSum(fs) == IF fs = <<>> THEN <<0, 1>> ELSE FracAdd(Head(fs), FracSum(Tail(fs)))

\* sum(categoryProbabilities.values())
ProbabilitySum == FracSum([c \in DOMAIN probabilities |-> probabilities[c][2]])

\* The raw scores of the publication being scored.
RawScores == score_paper_binary_priority(publication)

\* C7: for every publication scored and normalized, every value of
\* categoryProbabilities is >= 0 and the values sum to 1 within 1e-6,
\* whatever keywords its title, abstract and keywords hold.
C7_ProbabilitiesSumToOne ==
    Scored =>
        /\ probabilities # None
        /\ \A c \in DOMAIN probabilities :
               probabilities[c][2][1] >= 0 /\ probabilities[c][2][2] > 0
        /\ LET sum == ProbabilitySum
               distance == IF sum[1] > sum[2] THEN sum[1] - sum[2] ELSE sum[2] - sum[1]
           IN  distance * 1000000 < sum[2]

\* A publication with keywords of several labels and none of another: two
\* different positive probabilities and a zero one.
C7_Witness ==
    /\ Scored
    /\ probabilities # None
    /\ \E c, d, z \in DOMAIN probabilities :
           /\ probabilities[z][2][1] = 0
           /\ probabilities[c][2][1] > 0
           /\ FracLt(probabilities[c][2], probabilities[d][2])
    /\ ProbabilitySum = <<1, 1>>

\* C8: when every label's score is zero, normalize_scores returns the
\* uniform distribution, each of the N labels of the lexicon getting 1/N,
\* and no division by zero occurs (the publication is scored).
C8_UniformFallback ==
    (Scored /\ \A c \in DOMAIN RawScores : RawScores[c][2] = 0) =>
        /\ probabilities # None
        /\ Len(probabilities) = Len(ENHANCED_METHODOLOGICAL_KEYWORDS)
        /\ \A c \in DOMAIN probabilities :
               /\ probabilities[c][1] = ENHANCED_METHODOLOGICAL_KEYWORDS[c][1]
               /\ FracEq(probabilities[c][2], <<1, Len(ENHANCED_METHODOLOGICAL_KEYWORDS)>>)

\* An empty abstract, no keywords and a title without any lexicon term (its
\* words only begin with lexicon terms): four probabilities of 0.25.
C8_Witness ==
    /\ Scored
    /\ publication["title"] = Title_starry
    /\ publication["abstract"] = <<>>
    /\ publication["keywords"] = <<>>
    /\ category_scores # None
    /\ \A c \in DOMAIN category_scores : category_scores[c][2] = 0
    /\ probabilities # None
    /\ \A c \in DOMAIN probabilities : probabilities[c][2] = Quarter

\* C9: the primary label assigned to a scored publication is a label whose
\* probability is >= that of every other label, and it is assigned whatever
\* that greatest probability is: min_threshold changes nothing.
C9_PrimaryIsArgMax ==
    Scored =>
        /\ probabilities # None
        /\ \E c \in DOMAIN probabilities :
               /\ researchArea = probabilities[c][1]
               /\ \A d \in DOMAIN probabilities :
                      FracLe(probabilities[d][2], probabilities[c][2])

\* The greatest probability is below min_threshold, a single label has it,
\* and that label, which is not the default category, is the primary label.
C9_Witness ==
    /\ Scored
    /\ probabilities # None
    /\ researchArea # default_category
    /\ \E c \in DOMAIN probabilities :
           /\ researchArea = probabilities[c][1]
           /\ FracLt(probabilities[c][2], min_threshold)
           /\ \A d \in DOMAIN probabilities \ {c} :
                  FracLt(probabilities[d][2], probabilities[c][2])

\* The text of a field of the publication being scored, as it is searched.
FieldText(field) ==
    clean_text(CASE field = "title" -> Get(publication, "title", <<>>)
                 [] field = "abstract" ->
                        Prefix(Get(publication, "abstract", <<>>), AbstractLimit)
                 [] field = "keywords" -> Join(Get(publication, "keywords", <<>>)))

\* The fields in which the keyword is present.
FieldsWith(keyword) ==
    {field \in {"title", "abstract", "keywords"} : keyword_present(keyword, FieldText(field))}

\* The field weights C27 names, summed over a set of fields.
WeightOfFields(fields) ==
    (IF "title" \in fields THEN 3 ELSE 0) + (IF "keywords" \in fields THEN 2 ELSE 0)
        + (IF "abstract" \in fields THEN 1 ELSE 0)

\* The publication with every field written twice over: every keyword of a
\* field occurs in it at least twice.
Doubled(pub) ==
    ("title" :> pub["title"] \o <<" ">> \o pub["title"])
        @@ ("abstract" :> pub["abstract"] \o <<" ">> \o pub["abstract"])
        @@ ("keywords" :> pub["keywords"] \o pub["keywords"])

\* C27: the raw score of every label is its priority multiplier times the
\* sum, over the label's keywords, of the base weight times the sum of the
\* field weights (title 3, keywords 2, abstract 1) of the fields in which
\* the keyword is present; the scores are the same when every keyword of a
\* field occurs in it several times instead of once.
C27_ScoreIsBinaryWeightedSum ==
    (Scored /\ category_scores # None) =>
        /\ \A c \in DOMAIN category_scores :
               LET category == ENHANCED_METHODOLOGICAL_KEYWORDS[c][1]
                   category_keywords == ENHANCED_METHODOLOGICAL_KEYWORDS[c][2]
               IN  category_scores[c]
                       = <<category,
                           METHODOLOGICAL_PRIORITY[category]
                               * SumSeq([k \in DOMAIN category_keywords |->
                                            category_keywords[k][2]
                                                * WeightOfFields(
                                                      FieldsWith(category_keywords[k][1]))])>>
        /\ score_paper_binary_priority(Doubled(publication)) = category_scores

\* "bias" in the title and three times in the abstract, "label" once in the
\* abstract: 2 * (10 * (3 + 1) + 6 * 1) = 92 for the second label.
C27_Witness ==
    /\ Scored
    /\ publication["title"] = Title_galaxy_bias
    /\ publication["abstract"] = Abs_repeated
    /\ publication["keywords"] = <<>>
    /\ category_scores # None
    /\ category_scores[2] = <<"Interpretability & Insight", 92>>

\* The positions in the table of the labels of greatest probability.
TopLabels ==
    {c \in DOMAIN probabilities :
        \A d \in DOMAIN probabilities : FracLe(probabilities[d][2], probabilities[c][2])}

\* C30: when several labels share the greatest probability, the primary
\* label is the one of them that comes first in the order of the lexicon
\* table; under the uniform fallback, where every score is zero, it is the
\* first label of the table, 'Statistical Learning & AI', and not the
\* default category; the same record always gets the same label.
C30_FirstOfTiedLabels ==
    (Scored /\ probabilities # None) =>
        /\ Cardinality(TopLabels) >= 2 =>
               researchArea = ENHANCED_METHODOLOGICAL_KEYWORDS[Min(TopLabels)][1]
        /\ (\A c \in DOMAIN RawScores : RawScores[c][2] = 0) =>
               /\ researchArea = "Statistical Learning & AI"
               /\ researchArea # default_category
        /\ researchArea = assign_primary_category(normalize_scores(RawScores))

\* "stable" and "beta" in the abstract give the second and the third label
\* the same score and the others none: the second label is the primary one.
C30_Witness ==
    /\ Scored
    /\ probabilities # None
    /\ TopLabels = {2, 3}
    /\ probabilities[2][2] = <<8, 16>>
    /\ researchArea = "Interpretability & Insight"

===========================================================================
